---- MODULE Spec2Model ----
(***************************************************************************)
(* A model of the database diff tools of plm-config-as-code: the metadata  *)
(* they load, the foreign-key topological sorts, the row reconciliation    *)
(* and the changeset documents and master index that run writes.           *)
(*                                                                         *)
(* Text is a TLA+ string, and the template literals of the source are      *)
(* string concatenations (\o).  A JavaScript value is a record             *)
(* [k |-> kind, v |-> text]: kind is "null", "num", "bool" or "str", and   *)
(* v is the text String(value) gives.                                      *)
(***************************************************************************)
EXTENDS Integers, Sequences, FiniteSets, TLC

VARIABLES
    variant,    \* which program runs: "diff" (diff.ts), "sync" (sync.ts), ...
    pc,         \* position of the program
    now,        \* the wall clock (new Date(), Date.now())
    refTables,  \* loadTables(ref): table names of the reference, in catalog order
    tgtTables,  \* loadTables(tgt)
    fks,        \* loadFKs(ref): sequence of [childTable, parentTable]
    tgtFKs,     \* the foreign keys loaded from the target
    catalog,    \* [ref, tgt]: the foreign-key constraints each database declares
    failing,    \* the row queries that reject: a set of [side, table]
    baseTables, \* the table_name rows information_schema.tables holds, as stored
    ALLOWED_TABLES, \* the allow-list the program is configured with (empty = all)
    columnType,   \* the data_type of the column whose two values are compared
    pkMap,      \* loadPKs(ref): table -> primary-key columns, no entry for a table without one
    order,      \* result of the topological sort
    refRows,    \* table -> rows SELECT * returns on the reference
    tgtRows,    \* table -> rows SELECT * returns on the target
    diffs,      \* the table diffs computed so far, in insertion order
    TIMESTAMP,  \* the clock value the program took when it was loaded
    cursor,     \* position of the table loop of run
    fsys,       \* the files on disk: a set of [path, content]
    events,     \* what the current run did so far, in order
    runs,       \* how many times the program was started
    hist        \* per finished run, what it emitted

(***************************************************************************)
(* Bounds                                                                  *)
(***************************************************************************)
MaxFKs == 2
MaxRows == 2
MaxRuns == 2

(***************************************************************************)
(* Sequence helpers                                                        *)
(***************************************************************************)
Range(s) == {s[i] : i \in 1..Len(s)}

Includes(s, x) == \E i \in 1..Len(s) : s[i] = x

Reverse(s) == [i \in 1..Len(s) |-> s[Len(s) + 1 - i]]

\* position of the first occurrence of x in s, 0 when absent (indexOf + 1)
IndexOf(s, x) ==
    IF Includes(s, x) THEN CHOOSE i \in 1..Len(s) : s[i] = x /\ \A j \in 1..(i - 1) : s[j] # x
    ELSE 0

\* all sequences of distinct elements of S with lo..hi elements
SeqsNoDup(S, lo, hi) ==
    UNION {{s \in [1..n -> S] : \A i, j \in 1..n : i # j => s[i] # s[j]} : n \in lo..hi}

(***************************************************************************)
(* Foreign-key graph: Map<string, Set<string>>.  A JavaScript Set iterates *)
(* in insertion order, so an adjacency set is a duplicate-free sequence.   *)
(***************************************************************************)
SetAdd(s, x) == IF Includes(s, x) THEN s ELSE Append(s, x)

\* tables.forEach(t => g.set(t, new Set())); fks.forEach(fk => g.get(fk.childTable)?.add(fk.parentTable))
RECURSIVE AddEdges(_, _)
AddEdges(g, es) ==
    IF es = <<>> THEN g
    ELSE LET fk == Head(es)
             g1 == IF fk.childTable \in DOMAIN g
                   THEN [g EXCEPT ![fk.childTable] = SetAdd(@, fk.parentTable)]
                   ELSE g
         IN AddEdges(g1, Tail(es))

BuildGraph(tables, es) == AddEdges([t \in Range(tables) |-> <<>>], es)

\* The state of the depth-first search: res, v and visiting of the source,
\* and the exception thrown, if any ("" none, "cycle" the Error of line 136,
\* "type" the TypeError of g.get(t)!.forEach on a table that is no key of g).
NoErr == ""
CycleErr == "cycle"
TypeErr == "type"

DfsInit == [res |-> <<>>, v |-> {}, visiting |-> {}, err |-> NoErr, at |-> ""]

RECURSIVE dfs(_, _, _)
RECURSIVE dfsEach(_, _, _)
dfs(g, t, st) ==
    IF st.err # NoErr THEN st
    ELSE IF t \in st.visiting THEN [st EXCEPT !.err = CycleErr, !.at = t]
    ELSE IF t \in st.v THEN st
    ELSE IF t \notin DOMAIN g THEN [st EXCEPT !.visiting = @ \cup {t}, !.err = TypeErr]
    ELSE LET s1 == dfsEach(g, g[t], [st EXCEPT !.visiting = @ \cup {t}])
         IN IF s1.err # NoErr THEN s1
            ELSE [s1 EXCEPT !.visiting = @ \ {t}, !.v = @ \cup {t}, !.res = Append(@, t)]

dfsEach(g, ts, st) ==
    IF ts = <<>> \/ st.err # NoErr THEN st
    ELSE dfsEach(g, Tail(ts), dfs(g, Head(ts), st))

\* What a call of a sort gives: the order returned, or the error thrown.
SortResult(st) == [err |-> st.err, at |-> st.at, order |-> IF st.err = NoErr THEN st.res ELSE <<>>]

\* a sort that lists children before their parents: what forward ordering rules out
topoSortTables_childFirst(tables, es) ==
    LET r == SortResult(dfsEach(BuildGraph(tables, es), tables, DfsInit))
    IN [r EXCEPT !.order = Reverse(@)]

\* diff.ts topoSortTables
topoSortTables(tables, es) == SortResult(dfsEach(BuildGraph(tables, es), tables, DfsInit))

\* sync.ts topoSortTables: the same algorithm (graph, visited, visiting, result)
topoSortTables_sync(tables, es) == SortResult(dfsEach(BuildGraph(tables, es), tables, DfsInit))

(***************************************************************************)
(* topoSort of the drop/create/FK variants: edges are kept only when both  *)
(* endpoints are input tables, reversed on request; there is no visiting   *)
(* set.                                                                    *)
(***************************************************************************)
RECURSIVE AddEdgesBoth(_, _, _)
AddEdgesBoth(g, es, reverse) ==
    IF es = <<>> THEN g
    ELSE LET f == Head(es)
             g1 == IF f.childTable \notin DOMAIN g \/ f.parentTable \notin DOMAIN g THEN g
                   ELSE IF reverse
                        THEN [g EXCEPT ![f.parentTable] = SetAdd(@, f.childTable)]
                        ELSE [g EXCEPT ![f.childTable] = SetAdd(@, f.parentTable)]
         IN AddEdgesBoth(g1, Tail(es), reverse)

RECURSIVE visit(_, _, _)
RECURSIVE visitEach(_, _, _)
visit(g, t, st) ==
    IF t \in st.v THEN st
    ELSE LET s1 == visitEach(g, IF t \in DOMAIN g THEN g[t] ELSE <<>>,
                             [st EXCEPT !.v = @ \cup {t}])
         IN [s1 EXCEPT !.res = Append(@, t)]

visitEach(g, ts, st) ==
    IF ts = <<>> THEN st ELSE visitEach(g, Tail(ts), visit(g, Head(ts), st))

\* the variant with generateRowDiff (FK = {name, child, parent, childCols, parentCols})
topoSort(tables, es, reverse) ==
    SortResult(visitEach(AddEdgesBoth([t \in Range(tables) |-> <<>>], es, reverse),
                         tables, DfsInit))

\* the variant with columns(c, t) (dropOrder flag)
topoSort_drop(tables, es, dropOrder) ==
    SortResult(visitEach(AddEdgesBoth([t \in Range(tables) |-> <<>>], es, dropOrder),
                         tables, DfsInit))

(***************************************************************************)
(* Graph facts the claims speak about                                      *)
(***************************************************************************)
\* the edges of es with both endpoints in the table list
EdgesAmong(tables, es) ==
    {<<es[i].childTable, es[i].parentTable>> : i \in 1..Len(es)}
        \cap (Range(tables) \X Range(tables))

RECURSIVE ReachIn(_, _, _)
ReachIn(E, S, n) ==
    IF n = 0 THEN S
    ELSE ReachIn(E, S \cup {e[2] : e \in {d \in E : d[1] \in S}}, n - 1)

\* tables reachable from t over one or more edges of E
ReachFrom(E, t) == ReachIn(E, {e[2] : e \in {d \in E : d[1] = t}}, Cardinality(E))

OnCycle(E, t) == t \in ReachFrom(E, t)

HasCycle(tables, es) == \E t \in Range(tables) : OnCycle(EdgesAmong(tables, es), t)

(***************************************************************************)
(* JavaScript values and the YAML helpers                                  *)
(***************************************************************************)
NullV == [k |-> "null", v |-> ""]
Undefined == [k |-> "undefined", v |-> ""]
Num(s) == [k |-> "num", v |-> s]
Str(s) == [k |-> "str", v |-> s]

\* String(v)
String(v) ==
    IF v.k = "null" THEN "null"
    ELSE IF v.k = "undefined" THEN "undefined"
    ELSE v.v

\* r[c]: undefined when the row has no such property
Get(r, c) == IF c \in DOMAIN r THEN r[c] ELSE Undefined

\* Object.keys(r): the columns of the row in the order the query returned them
AllCols == <<"id", "k1", "k2", "name">>
ObjectKeys(r) == SelectSeq(AllCols, LAMBDA c : c \in DOMAIN r)

\* Array.prototype.join
RECURSIVE Join(_, _)
Join(ss, sep) ==
    IF ss = <<>> THEN ""
    ELSE IF Len(ss) = 1 THEN ss[1]
    ELSE ss[1] \o sep \o Join(Tail(ss), sep)

\* String.replace(/'/g, "''") on the texts of the model
EscapeQuotes(s) == IF s = "o'k" THEN "o''k" ELSE s
UnescapeQuotes(s) == IF s = "o''k" THEN "o'k" ELSE s

\* yamlValue: a YAML scalar, [q |-> quoted, s |-> text between the quotes]
yamlValue(v) ==
    IF v.k = "null" THEN [q |-> FALSE, s |-> "null"]
    ELSE IF v.k \in {"num", "bool"} THEN [q |-> FALSE, s |-> String(v)]
    ELSE [q |-> TRUE, s |-> EscapeQuotes(String(v))]

rowKey(r, pk) == Join([i \in 1..Len(pk) |-> String(Get(r, pk[i]))], "|")

\* whereClause: the terms `k = value` that " AND " joins
whereClause(r, pk) == [i \in 1..Len(pk) |-> [name |-> pk[i], value |-> yamlValue(Get(r, pk[i]))]]

(***************************************************************************)
(* Changeset builders of diff.ts                                           *)
(***************************************************************************)
ColumnEntries(r, cols) == [i \in 1..Len(cols) |-> [name |-> cols[i], value |-> yamlValue(Get(r, cols[i]))]]

insertCS(t, r, pk) ==
    [id |-> t \o "-insert-" \o rowKey(r, pk), author |-> "auto", op |-> "insert",
     tableName |-> t, columns |-> ColumnEntries(r, ObjectKeys(r)), where |-> <<>>]

updateCS(t, r, cols, pk) ==
    [id |-> t \o "-update-" \o rowKey(r, pk), author |-> "auto", op |-> "update",
     tableName |-> t, columns |-> ColumnEntries(r, cols), where |-> whereClause(r, pk)]

deleteCS(t, r, pk) ==
    [id |-> t \o "-delete-" \o rowKey(r, pk), author |-> "auto", op |-> "delete",
     tableName |-> t, columns |-> <<>>, where |-> whereClause(r, pk)]

(***************************************************************************)
(* Row reconciliation                                                      *)
(***************************************************************************)
\* new Map(rows.map(r => [rowKey(r, pk), r])): has and get (the last row of a key wins)
MapHas(rows, pk, key) == \E i \in 1..Len(rows) : rowKey(rows[i], pk) = key

MapGet(rows, pk, key) ==
    rows[CHOOSE i \in 1..Len(rows) :
            /\ rowKey(rows[i], pk) = key
            /\ \A j \in (i + 1)..Len(rows) : rowKey(rows[j], pk) # key]

MapSeq(s, F(_)) == [i \in 1..Len(s) |-> F(s[i])]

\* the columns of r whose String differs from the target row's
Changed(r, tRow) == SelectSeq(ObjectKeys(r), LAMBDA c : String(Get(r, c)) # String(Get(tRow, c)))

NullDiff == [isNull |-> TRUE, table |-> "", inserts |-> <<>>, updates |-> <<>>, deletes |-> <<>>]

\* diff.ts diffTable, given the rows the two queries returned
diffTable(t, pk, refRs, tgtRs) ==
    IF pk = <<>> THEN NullDiff
    ELSE LET inserts == MapSeq(SelectSeq(refRs, LAMBDA r : ~MapHas(tgtRs, pk, rowKey(r, pk))),
                               LAMBDA r : insertCS(t, r, pk))
             updates == MapSeq(SelectSeq(refRs, LAMBDA r :
                                   /\ MapHas(tgtRs, pk, rowKey(r, pk))
                                   /\ Changed(r, MapGet(tgtRs, pk, rowKey(r, pk))) # <<>>),
                               LAMBDA r : updateCS(t, r, Changed(r, MapGet(tgtRs, pk, rowKey(r, pk))), pk))
             deletes == MapSeq(SelectSeq(tgtRs, LAMBDA r : ~MapHas(refRs, pk, rowKey(r, pk))),
                               LAMBDA r : deleteCS(t, r, pk))
         IN IF inserts = <<>> /\ updates = <<>> /\ deletes = <<>> THEN NullDiff
            ELSE [isNull |-> FALSE, table |-> t, inserts |-> inserts,
                  updates |-> updates, deletes |-> deletes]

NullYaml == [isNull |-> TRUE, table |-> "", yaml |-> <<>>]

\* sync.ts generateTableDiff: one document per table, inserts, updates, deletes
generateTableDiff(table, pk, refRs, tgtRs) ==
    IF pk = <<>> THEN NullYaml
    ELSE LET inserts == SelectSeq(refRs, LAMBDA r : ~MapHas(tgtRs, pk, rowKey(r, pk)))
             deletes == SelectSeq(tgtRs, LAMBDA r : ~MapHas(refRs, pk, rowKey(r, pk)))
             updates == SelectSeq(refRs, LAMBDA r :
                            /\ MapHas(tgtRs, pk, rowKey(r, pk))
                            /\ Changed(r, MapGet(tgtRs, pk, rowKey(r, pk))) # <<>>)
         IN IF inserts = <<>> /\ updates = <<>> /\ deletes = <<>> THEN NullYaml
            ELSE [isNull |-> FALSE, table |-> table,
                  yaml |-> MapSeq(inserts, LAMBDA r : insertCS(table, r, pk))
                           \o MapSeq(updates, LAMBDA r :
                                updateCS(table, r, Changed(r, MapGet(tgtRs, pk, rowKey(r, pk))), pk))
                           \o MapSeq(deletes, LAMBDA r : deleteCS(table, r, pk))]

(***************************************************************************)
(* Type-aware comparison of the batched variant                            *)
(***************************************************************************)
numericTypes == {"integer", "bigint", "smallint", "decimal", "numeric", "real", "double precision"}

\* Number(value) as the shortest decimal text, "NaN" when the text is no number
Number(v) ==
    IF v.k = "num" THEN v.v
    ELSE IF v.k = "bool" THEN (IF v.v = "true" THEN "1" ELSE "0")
    ELSE IF v.v \in {"1", "1.0", "1.00"} THEN "1"
    ELSE IF v.v \in {"2", "2.0"} THEN "2"
    ELSE IF v.v \in {"3"} THEN "3"
    ELSE IF v.v = "" THEN "0"
    ELSE IF v.v \in {"9007199254740992", "9007199254740993"} THEN "9007199254740992"
    ELSE "NaN"

\* the values Boolean(value) turns into false
Falsy(v) ==
    \/ v.k = "bool" /\ v.v = "false"
    \/ v.k = "num" /\ v.v \in {"0", "NaN"}
    \/ v.k = "str" /\ v.v = ""

dateTypes == {"date"}

timestampTypes == {"timestamp without time zone", "timestamp with time zone"}

\* value.toString(): a Date prints its instant in the local zone, an object of a json
\* column prints as [object Object]
toString(value) ==
    IF value.k = "date" THEN "Date " \o value.v
    ELSE IF value.k = "obj" THEN "[object Object]"
    ELSE String(value)

\* new Date(value).getTime() on the timestamp texts of the model, in milliseconds
DateParse(value) ==
    IF value.k = "num" THEN value.v
    ELSE IF value.v \in {"1970-01-01T00:00:00Z", "1970-01-01 00:00:00+00"} THEN "0"
    ELSE IF value.v = "1970-01-01T00:00:01Z" THEN "1000"
    ELSE "NaN"

normalizeValue(value, dataType) ==
    IF value.k = "null" THEN NullV
    ELSE IF dataType \in numericTypes THEN Num(Number(value))
    ELSE IF dataType = "boolean" THEN [k |-> "bool", v |-> IF Falsy(value) THEN "false" ELSE "true"]
    ELSE IF dataType \in dateTypes THEN Str(toString(value))
    ELSE IF dataType \in timestampTypes
    THEN Num(IF value.k = "date" THEN value.v ELSE DateParse(value))
    ELSE Str(toString(value))

\* normalizeValue(a) === normalizeValue(b); NaN is not equal to itself
valuesAreEqual(a, b, dataType) ==
    /\ normalizeValue(a, dataType) = normalizeValue(b, dataType)
    /\ normalizeValue(a, dataType) # Num("NaN")

(***************************************************************************)
(* The external migration executor applying changesets to the rows of a    *)
(* table: delete and update by the where predicate, insert of the row.     *)
(***************************************************************************)
\* the value a YAML scalar denotes
ParseYaml(y) ==
    IF y.q THEN Str(UnescapeQuotes(y.s))
    ELSE IF y.s = "null" THEN NullV
    ELSE IF y.s \in {"true", "false"} THEN [k |-> "bool", v |-> y.s]
    ELSE Num(y.s)

\* SQL `col = literal`: never true of a null
Matches(r, where) ==
    \A i \in 1..Len(where) :
        LET lit == ParseYaml(where[i].value)
            val == Get(r, where[i].name)
        IN val.k \notin {"null", "undefined"} /\ lit.k # "null" /\ String(val) = String(lit)

RowOf(columns) ==
    [c \in {columns[i].name : i \in 1..Len(columns)} |->
        ParseYaml(columns[CHOOSE i \in 1..Len(columns) : columns[i].name = c].value)]

SetColumns(r, columns) ==
    [c \in DOMAIN r |->
        IF \E i \in 1..Len(columns) : columns[i].name = c
        THEN ParseYaml(columns[CHOOSE i \in 1..Len(columns) : columns[i].name = c].value)
        ELSE r[c]]

ApplyChangeSet(rows, cs) ==
    IF cs.op = "insert" THEN Append(rows, RowOf(cs.columns))
    ELSE IF cs.op = "delete" THEN SelectSeq(rows, LAMBDA r : ~Matches(r, cs.where))
    ELSE IF cs.op = "update"
    THEN [i \in 1..Len(rows) |->
            IF Matches(rows[i], cs.where) THEN SetColumns(rows[i], cs.columns) ELSE rows[i]]
    ELSE rows

RECURSIVE ApplyAll(_, _)
ApplyAll(rows, css) ==
    IF css = <<>> THEN rows ELSE ApplyAll(ApplyChangeSet(rows, Head(css)), Tail(css))

(***************************************************************************)
(* Tables of the model: their columns, primary key and column types, and   *)
(* the rows a table may hold                                               *)
(***************************************************************************)
RowTables == {"t", "n", "m", "k"}

Schema(t) ==
    IF t = "k"
    THEN [cols |-> <<"k1", "k2", "name">>, pk |-> <<"k1", "k2">>,
          types |-> [k1 |-> "text", k2 |-> "text", name |-> "text"]]
    ELSE [cols |-> <<"id", "name">>, pk |-> <<"id">>,
          types |-> [id |-> "integer", name |-> IF t = "m" THEN "numeric" ELSE "text"]]

\* loadPKs(ref).get(t)
PKOf(t) == Schema(t).pk

IdKey(n) == [id |-> Num(n)]
TextKey(x, y) == [k1 |-> Str(x), k2 |-> Str(y)]

\* the primary-key tuples a table may hold, in the order the query returns the rows
KeysOf(t) ==
    IF t = "k" THEN <<TextKey("a|b", "c"), TextKey("a", "b|c"), TextKey("a", "c")>>
    ELSE IF t = "t" THEN <<IdKey("1"), IdKey("2"), IdKey("3")>>
    ELSE <<IdKey("1"), IdKey("2")>>

\* the values of the column name
ValsOf(t) ==
    IF t = "t" THEN {Str("a"), Str("b"), Str("c"), Str("x")}
    ELSE IF t = "n" THEN {NullV, Str("null"), Str("o'k")}
    ELSE IF t = "m" THEN {Str("1.0"), Str("1.00")}
    ELSE {Str("p"), Str("q")}

SortedSeq(I) ==
    CHOOSE s \in [1..Cardinality(I) -> I] : \A i, j \in 1..Cardinality(I) : i < j => s[i] < s[j]

RowsFrom(t, I, f) ==
    LET idx == SortedSeq(I)
    IN [j \in 1..Cardinality(I) |-> KeysOf(t)[idx[j]] @@ [name |-> f[idx[j]]]]

\* the row sequences of table t with at most n rows
RowSeqs(t, n) ==
    UNION {{RowsFrom(t, I, f) : f \in [I -> ValsOf(t)]} :
              I \in {J \in SUBSET (1..Len(KeysOf(t))) : Cardinality(J) <= n}}

(***************************************************************************)
(* Inputs of the sorts                                                     *)
(***************************************************************************)
Names == {"a", "b", "c"}
Outside == "x"   \* a table the loaders list in no table list (another schema)

FKRec(c, p) == [childTable |-> c, parentTable |-> p]

SortEdges == {FKRec(c, p) : c \in Names, p \in Names \cup {Outside}} \cup {FKRec(Outside, "a")}

runVars == <<TIMESTAMP, cursor, fsys, events, runs, hist>>

metaVars == <<tgtFKs, pkMap, catalog, failing, baseTables, ALLOWED_TABLES, columnType>>

vars == <<variant, pc, now, refTables, tgtTables, fks, tgtFKs, pkMap, catalog, failing,
          baseTables, ALLOWED_TABLES, columnType, order,
          refRows, tgtRows,
          diffs, TIMESTAMP, cursor, fsys, events, runs, hist>>

NoCatalog == [ref |-> <<>>, tgt |-> <<>>]

\* the program state before a run
Idle ==
    /\ TIMESTAMP = 0
    /\ cursor = 0
    /\ fsys = {}
    /\ events = <<>>
    /\ runs = 0
    /\ hist = <<>>

NoOrder == [err |-> NoErr, at |-> "", order |-> <<>>]

(***************************************************************************)
(* SpecSort: the four sorts applied to every bounded input                 *)
(***************************************************************************)
InitSort ==
    /\ variant = "none"
    /\ pc = "input"
    /\ now = 0
    /\ refTables \in SeqsNoDup(Names, 0, 3)
    /\ tgtTables = <<>>
    /\ fks \in SeqsNoDup(SortEdges, 0, MaxFKs)
    /\ order = NoOrder
    /\ refRows = <<>>
    /\ tgtRows = <<>>
    /\ diffs = <<>>
    /\ tgtFKs = <<>>
    /\ pkMap = <<>>
    /\ catalog = NoCatalog
    /\ failing = {}
    /\ baseTables = <<>>
    /\ ALLOWED_TABLES = {}
    /\ columnType = ""
    /\ Idle

Sorted(name, r) ==
    /\ pc = "input"
    /\ pc' = "sorted"
    /\ variant' = name
    /\ order' = r
    /\ UNCHANGED <<now, refTables, tgtTables, fks, refRows, tgtRows, diffs>>
    /\ UNCHANGED runVars
    /\ UNCHANGED metaVars

SortDiffTs == Sorted("diff", topoSortTables(refTables, fks))

SortSyncTs == Sorted("sync", topoSortTables_sync(refTables, fks))

SortForward == Sorted("fwd", topoSort(refTables, fks, FALSE))

SortReverse == Sorted("rev", topoSort(refTables, fks, TRUE))

SortInsertOrder == Sorted("ins", topoSort_drop(refTables, fks, FALSE))

SortDropOrder == Sorted("drop", topoSort_drop(refTables, fks, TRUE))

NextSort ==
    \/ SortDiffTs
    \/ SortSyncTs
    \/ SortForward
    \/ SortReverse
    \/ SortInsertOrder
    \/ SortDropOrder

SpecSort == InitSort /\ [][NextSort]_vars

(***************************************************************************)
(* SpecRows: one table, every bounded pair of row sets; the table is       *)
(* diffed, the changesets are applied to the target in the order of the    *)
(* master index, and the table is diffed again.                            *)
(***************************************************************************)
InitRows ==
    /\ variant = "none"
    /\ pc = "input"
    /\ now = 0
    /\ \E t \in RowTables :
        /\ refTables = <<t>>
        /\ tgtTables = <<t>>
        /\ refRows \in [{t} -> RowSeqs(t, MaxRows)]
        /\ tgtRows \in [{t} -> RowSeqs(t, MaxRows)]
        /\ pkMap = [x \in {t} |-> PKOf(t)]
    /\ tgtFKs = <<>>
    /\ catalog = NoCatalog
    /\ failing = {}
    /\ baseTables = <<>>
    /\ ALLOWED_TABLES = {}
    /\ columnType = ""
    /\ fks = <<>>
    /\ order = NoOrder
    /\ diffs = <<>>
    /\ Idle

TheTable == refTables[1]

DiffOf(v) ==
    IF v = "diff" THEN diffTable(TheTable, PKOf(TheTable), refRows[TheTable], tgtRows[TheTable])
    ELSE generateTableDiff(TheTable, PKOf(TheTable), refRows[TheTable], tgtRows[TheTable])

\* the changesets of a table diff in the order the master index applies them
ApplicationOrder(v, d) == IF v = "diff" THEN d.deletes \o d.updates \o d.inserts ELSE d.yaml

DiffRows ==
    /\ pc = "input"
    /\ variant' = "diff"
    /\ diffs' = <<DiffOf("diff")>>
    /\ pc' = "diffed"
    /\ UNCHANGED <<now, refTables, tgtTables, fks, order, refRows, tgtRows>>
    /\ UNCHANGED runVars
    /\ UNCHANGED metaVars

GenerateRows ==
    /\ pc = "input"
    /\ variant' = "sync"
    /\ diffs' = <<DiffOf("sync")>>
    /\ pc' = "diffed"
    /\ UNCHANGED <<now, refTables, tgtTables, fks, order, refRows, tgtRows>>
    /\ UNCHANGED runVars
    /\ UNCHANGED metaVars

ApplyRows ==
    /\ pc = "diffed"
    /\ tgtRows' = [tgtRows EXCEPT ![TheTable] = ApplyAll(@, ApplicationOrder(variant, diffs[1]))]
    /\ pc' = "applied"
    /\ UNCHANGED <<variant, now, refTables, tgtTables, fks, order, refRows, diffs>>
    /\ UNCHANGED runVars
    /\ UNCHANGED metaVars

Rediff ==
    /\ pc = "applied"
    /\ diffs' = Append(diffs, DiffOf(variant))
    /\ pc' = "rediffed"
    /\ UNCHANGED <<variant, now, refTables, tgtTables, fks, order, refRows, tgtRows>>
    /\ UNCHANGED runVars
    /\ UNCHANGED metaVars

NextRows ==
    \/ DiffRows
    \/ GenerateRows
    \/ ApplyRows
    \/ Rediff

SpecRows == InitRows /\ [][NextRows]_vars

(***************************************************************************)
(* Type-aware generators of the batched variant                            *)
(***************************************************************************)
BATCH_SIZE == 50

\* Array.prototype.join writes null and undefined as the empty string
JoinText(v) == IF v.k \in {"null", "undefined"} THEN "" ELSE String(v)

pkToString(row, pkColumns) ==
    Join([i \in 1..Len(pkColumns) |-> JoinText(Get(row, pkColumns[i]))], "|")

\* formatYAMLValue for the column types of the model's tables (no date, no timestamp)
formatYAMLValue(value, dataType) ==
    IF value.k = "null" THEN [q |-> FALSE, s |-> "null"]
    ELSE IF dataType \in numericTypes THEN [q |-> FALSE, s |-> String(value)]
    ELSE IF dataType = "boolean"
         THEN [q |-> FALSE, s |-> IF Falsy(value) THEN "false" ELSE "true"]
    ELSE [q |-> TRUE, s |-> EscapeQuotes(String(value))]

\* pkColumns.map(c => `${c} = ${row[c]}`), the terms " AND " joins
pkCondition(row, pkColumns) ==
    [i \in 1..Len(pkColumns) |->
        [name |-> pkColumns[i], value |-> [q |-> FALSE, s |-> String(Get(row, pkColumns[i]))]]]

RECURSIVE Flatten(_)
Flatten(ss) == IF ss = <<>> THEN <<>> ELSE Head(ss) \o Flatten(Tail(ss))

Min(x, y) == IF x < y THEN x ELSE y

generateDeleteYAML(table, row, pkColumns, clock) ==
    [id |-> table \o "-delete-" \o pkToString(row, pkColumns) \o "-" \o ToString(clock),
     author |-> "auto-generated", op |-> "delete", tableName |-> table, columns |-> <<>>,
     where |-> pkCondition(row, pkColumns),
     preConditions |-> [onFail |-> "MARK_RAN", expectedResult |-> 1,
                        sqlCheck |-> pkCondition(row, pkColumns)]]

BatchColumns(row, columns) ==
    [i \in 1..Len(columns) |->
        [name |-> columns[i].name,
         value |-> formatYAMLValue(Get(row, columns[i].name), columns[i].data_type)]]

\* one changeset per slice of BATCH_SIZE rows, its identifier carrying the slice's offset
generateBatchedInsertYAML(table, rows, columns, clock) ==
    [b \in 1..((Len(rows) + BATCH_SIZE - 1) \div BATCH_SIZE) |->
        LET i == (b - 1) * BATCH_SIZE
            batch == SubSeq(rows, i + 1, Min(i + BATCH_SIZE, Len(rows)))
        IN [id |-> table \o "-insert-batch-" \o ToString(i) \o "-" \o ToString(clock),
            author |-> "auto-generated", op |-> "insert", tableName |-> table,
            columns |-> Flatten([j \in 1..Len(batch) |-> BatchColumns(batch[j], columns)]),
            where |-> <<>>,
            preConditions |-> [onFail |-> "MARK_RAN"]]]

UnequalColumns(u, columns) ==
    SelectSeq(columns, LAMBDA col :
        ~valuesAreEqual(Get(u.refRow, col.name), Get(u.targetRow, col.name), col.data_type))

generateBatchedUpdateYAML(table, updates, pkColumns, columns, clock) ==
    LET withColumns == SelectSeq(updates, LAMBDA u : UnequalColumns(u, columns) # <<>>)
    IN [n \in 1..Len(withColumns) |->
          LET u == withColumns[n]
          IN [id |-> table \o "-update-" \o pkToString(u.refRow, pkColumns) \o "-" \o ToString(clock),
              author |-> "auto-generated", op |-> "update", tableName |-> table,
              columns |-> BatchColumns(u.refRow, UnequalColumns(u, columns)),
              where |-> pkCondition(u.refRow, pkColumns),
              preConditions |-> [onFail |-> "MARK_RAN", expectedResult |-> 1,
                                 sqlCheck |-> pkCondition(u.refRow, pkColumns)]]]

generateSequenceYAML(table, column, sequenceName, maxValue, clock) ==
    [id |-> table \o "-sequence-" \o column \o "-" \o ToString(clock),
     author |-> "auto-generated", op |-> "sql", tableName |-> table, columns |-> <<>>,
     where |-> <<>>,
     sql |-> [setval |-> sequenceName, value |-> maxValue + 1],
     preConditions |-> [onFail |-> "MARK_RAN"]]

\* new Map(rows.map(r => [pkToString(r, pk), r])): one entry per key, at the place of the
\* key's first row, holding the key's last row
MapEntries(rows, pkColumns) ==
    LET key(i) == pkToString(rows[i], pkColumns)
        firsts == SelectSeq([i \in 1..Len(rows) |-> i],
                            LAMBDA i : \A j \in 1..(i - 1) : key(j) # key(i))
        last(i) == CHOOSE j \in i..Len(rows) :
                      /\ key(j) = key(i)
                      /\ \A l \in (j + 1)..Len(rows) : key(l) # key(i)
    IN [n \in 1..Len(firsts) |-> [key |-> key(firsts[n]), row |-> rows[last(firsts[n])]]]

EntryHas(entries, key) == \E i \in 1..Len(entries) : entries[i].key = key

EntryGet(entries, key) == entries[CHOOSE i \in 1..Len(entries) : entries[i].key = key].row

\* Math.max over the numbers a serial column holds
NumberOf(v) ==
    IF String(v) = "1" THEN 1 ELSE IF String(v) = "2" THEN 2 ELSE IF String(v) = "3" THEN 3 ELSE 0

MaxOf(rows, column) ==
    CHOOSE m \in {NumberOf(Get(rows[i], column)) : i \in 1..Len(rows)} :
        \A i \in 1..Len(rows) : NumberOf(Get(rows[i], column)) <= m

\* the changesets generateDiffPerTable collects for one table: inserts, updates, deletes,
\* sequences
TableYamlLines(tableName, pkColumns, columns, serialCols, refRs, tgtRs, clock) ==
    LET refMap == MapEntries(refRs, pkColumns)
        targetMap == MapEntries(tgtRs, pkColumns)
        missing == SelectSeq(refMap, LAMBDA e : ~EntryHas(targetMap, e.key))
        missingRows == [i \in 1..Len(missing) |-> missing[i].row]
        both == SelectSeq(targetMap, LAMBDA e :
                    /\ EntryHas(refMap, e.key)
                    /\ UnequalColumns([refRow |-> EntryGet(refMap, e.key), targetRow |-> e.row],
                                      columns) # <<>>)
        updateRows == [i \in 1..Len(both) |->
                          [refRow |-> EntryGet(refMap, both[i].key), targetRow |-> both[i].row]]
        gone == SelectSeq(targetMap, LAMBDA e : ~EntryHas(refMap, e.key))
    IN generateBatchedInsertYAML(tableName, missingRows, columns, clock)
       \o generateBatchedUpdateYAML(tableName, updateRows, pkColumns, columns, clock)
       \o [i \in 1..Len(gone) |-> generateDeleteYAML(tableName, gone[i].row, pkColumns, clock)]
       \o [i \in 1..Len(serialCols) |->
              generateSequenceYAML(tableName, serialCols[i].column_name, serialCols[i].sequence,
                                   IF refRs = <<>> THEN 0 ELSE MaxOf(refRs, serialCols[i].column_name),
                                   clock)]

(***************************************************************************)
(* Spec: the programs from start to exit, started MaxRuns times against    *)
(* the same pair of databases.  variant names the program: "diff" is       *)
(* diff.ts, "sync" is sync.ts, "batch" is the batched variant.             *)
(***************************************************************************)
Ev(e, a) == [e |-> e, arg |-> a]

Stamp(n) == "T" \o ToString(n)

\* paths are kept relative to the working directory, without the leading "./"
OUTPUT_DIR(v, n) == "db/diff/" \o Stamp(n) \o (IF v = "sync" THEN "/data" ELSE "")

MasterPath(v, n) ==
    IF v = "batch" THEN "master-changelog.yaml" ELSE OUTPUT_DIR(v, n) \o "/master-changelog.yaml"

SnapshotPath(n) == "db/diff/" \o Stamp(n) \o "/snapshot.yaml"

File(p, c) == [path |-> p, content |-> c]

WriteFile(fs, p, c) == {f \in fs : f.path # p} \cup {File(p, c)}

RECURSIVE WriteAll(_, _)
WriteAll(fs, files) ==
    IF files = <<>> THEN fs
    ELSE WriteAll(WriteFile(fs, Head(files).path, Head(files).content), Tail(files))

WriteEvents(files) == [i \in 1..Len(files) |-> Ev("write", files[i].path)]

Include(f) == [include |-> f]

\* the hard-coded table list of the batched variant
BatchTables == <<"a", "b", "c">>

\* information_schema.columns of a table
ColumnInfo(t) ==
    [i \in 1..Len(Schema(t).cols) |->
        [name |-> Schema(t).cols[i], data_type |-> Schema(t).types[Schema(t).cols[i]],
         nullable |-> ~Includes(Schema(t).pk, Schema(t).cols[i])]]

\* the columns whose default is nextval('<sequence>'::regclass)
SerialColumns(t) ==
    IF t = "c" THEN <<[column_name |-> "id", sequence |-> "c_id_seq"]>> ELSE <<>>

\* sync.ts generateNewTableChangeLog: createTable with the primary key declared in the
\* same changeset, then one insert per reference row
generateNewTableChangeLog(table, pk, refRs) ==
    [isNull |-> FALSE, table |-> table,
     yaml |-> <<[id |-> table \o "-create", author |-> "auto", op |-> "createTable",
                 tableName |-> table,
                 columns |-> [i \in 1..Len(ColumnInfo(table)) |->
                                 [name |-> ColumnInfo(table)[i].name,
                                  type |-> ColumnInfo(table)[i].data_type,
                                  nullable |-> ColumnInfo(table)[i].nullable]],
                 where |-> <<>>,
                 addPrimaryKey |-> pk]>>
              \o [i \in 1..Len(refRs) |-> insertCS(table, refRs[i], pk)]]

existingTables == SelectSeq(refTables, LAMBDA t : Includes(tgtTables, t))

newTables == SelectSeq(refTables, LAMBDA t : ~Includes(tgtTables, t))

\* the rows of the scenes a table of a run may be in
Row(id, name) == IdKey(id) @@ [name |-> Str(name)]

Scenes == {"same", "ins", "del", "upd", "all"}

SceneRef(sc) ==
    IF sc = "ins" THEN <<Row("1", "a"), Row("2", "b")>>
    ELSE IF sc = "all" THEN <<Row("1", "a"), Row("2", "b")>>
    ELSE <<Row("1", "a")>>

SceneTgt(sc) ==
    IF sc = "del" THEN <<Row("1", "a"), Row("3", "c")>>
    ELSE IF sc = "upd" THEN <<Row("1", "x")>>
    ELSE IF sc = "all" THEN <<Row("1", "x"), Row("3", "c")>>
    ELSE <<Row("1", "a")>>

\* the foreign keys loadFKs may return, in the order it returns them
FKCandidates == <<FKRec("a", Outside), FKRec("a", "b"), FKRec("b", "a"), FKRec("b", "c")>>

PickSeq(s, I) == [j \in 1..Cardinality(I) |-> s[SortedSeq(I)[j]]]

FKLists == {PickSeq(FKCandidates, I) : I \in SUBSET (1..Len(FKCandidates))}

\* the primary keys the reference may declare: on every table, on all but c, on all but a
PkMaps == {[t \in S |-> <<"id">>] : S \in {{"a", "b", "c"}, {"a", "b"}, {"b", "c"}}}

Init ==
    /\ variant \in {"diff", "sync", "batch"}
    /\ pc = "start"
    /\ now = 1
    /\ TIMESTAMP = 1
    /\ runs = 1
    /\ refTables \in {<<"a", "b", "c">>, <<"b", "a", "c">>}
    /\ tgtTables \in {<<"a", "b", "c">>, <<"a", "b">>}
    /\ fks \in FKLists
    /\ tgtFKs = <<>>
    /\ catalog = NoCatalog
    /\ failing = {}
    /\ baseTables = <<>>
    /\ ALLOWED_TABLES = {}
    /\ columnType = ""
    /\ pkMap \in PkMaps
    /\ variant = "batch" => refTables = BatchTables /\ fks = <<>>
    /\ \E sa \in Scenes, sb \in Scenes, sc \in {"same", "all"} :
        /\ refRows = [a |-> SceneRef(sa), b |-> SceneRef(sb), c |-> SceneRef(sc)]
        /\ tgtRows = [a |-> SceneTgt(sa), b |-> SceneTgt(sb),
                      c |-> IF Includes(tgtTables, "c") THEN SceneTgt(sc) ELSE <<>>]
    /\ order = NoOrder
    /\ diffs = <<>>
    /\ cursor = 0
    /\ fsys = {}
    /\ events = <<>>
    /\ hist = <<>>

inputVars ==
    <<variant, refTables, tgtTables, fks, tgtFKs, pkMap, catalog, failing, baseTables,
      ALLOWED_TABLES, columnType, refRows, tgtRows>>

\* pkMap.get(t), an absent entry read as the empty column list
PkGet(t) == IF t \in DOMAIN pkMap THEN pkMap[t] ELSE <<>>

\* run().catch: the error is printed and the process exits with status 1
Fail(msg) ==
    /\ events' = events \o <<Ev("error", msg), Ev("exit", "1")>>
    /\ pc' = "failed"

ErrorText(v, r) ==
    IF r.err = CycleErr
    THEN (IF v = "diff" THEN "FK cycle at " ELSE "FK cycle detected: ") \o r.at
    ELSE "TypeError: Cannot read properties of undefined (reading 'forEach')"

\* await ref.connect(); await tgt.connect()
Connect ==
    /\ pc = "start"
    /\ events' = events \o <<Ev("connect", "ref"), Ev("connect", "tgt")>>
    /\ pc' = IF variant = "batch" THEN "diffing" ELSE "connected"
    /\ cursor' = 1
    /\ UNCHANGED <<inputVars, now, TIMESTAMP, order, diffs, fsys, runs, hist>>

\* diff.ts: the four loaders, then the sort in the continuation of the last one
LoadAndSort ==
    /\ pc = "connected"
    /\ variant = "diff"
    /\ order' = topoSortTables(existingTables, fks)
    /\ IF order'.err # NoErr
       THEN Fail(ErrorText(variant, order'))
       ELSE pc' = "diffing" /\ events' = events
    /\ UNCHANGED <<inputVars, now, TIMESTAMP, cursor, diffs, fsys, runs, hist>>

\* sync.ts: the four loaders, then the sort and the log of the order
LoadAndSortSync ==
    /\ pc = "connected"
    /\ variant = "sync"
    /\ order' = topoSortTables_sync(existingTables, fks)
    /\ IF order'.err # NoErr
       THEN Fail(ErrorText(variant, order'))
       ELSE pc' = "diffing" /\ events' = Append(events, Ev("log", "FK-safe table order"))
    /\ UNCHANGED <<inputVars, now, TIMESTAMP, cursor, diffs, fsys, runs, hist>>

\* diff.ts: one pass of the loop over order
Rejects(side, t) == [side |-> side, table |-> t] \in failing

\* the target rows as diffTable and generateTableDiff see them: the query sits in
\* try { ... } catch {}, so after a rejection tgtRows is still []
TgtQuery(t) == IF Rejects("tgt", t) THEN <<>> ELSE tgtRows[t]

\* one pass of a table loop: the reference query of a table with a primary key is not
\* guarded, its rejection rejects run
TableStep(t, d) ==
    IF PkGet(t) # <<>> /\ Rejects("ref", t)
    THEN /\ Fail("query failed: " \o t)
         /\ UNCHANGED <<diffs, cursor>>
    ELSE /\ diffs' = (IF d.isNull THEN diffs ELSE Append(diffs, d))
         /\ cursor' = cursor + 1
         /\ UNCHANGED <<pc, events>>

DiffNext ==
    /\ pc = "diffing"
    /\ variant = "diff"
    /\ cursor <= Len(order.order)
    /\ LET t == order.order[cursor]
       IN TableStep(t, diffTable(t, PkGet(t), refRows[t], TgtQuery(t)))
    /\ UNCHANGED <<inputVars, now, TIMESTAMP, order, fsys, runs, hist>>

\* diffs.get(t)?.<part> over the tables of ts, concatenated
PartsOf(ds, tabs, part) ==
    Flatten([i \in 1..Len(tabs) |->
                Flatten([j \in 1..Len(ds) |->
                            IF ds[j].table = tabs[i] THEN ds[j][part] ELSE <<>>])])

\* a master index that lists the three documents whether or not they were written
MasterIncludes_all(del, upd, ins) ==
    <<Include("deletes.yaml"), Include("updates.yaml"), Include("inserts.yaml")>>

\* diff.ts: the includes of the master index, one per non-empty list
MasterIncludes(del, upd, ins) ==
    (IF del # <<>> THEN <<Include("deletes.yaml")>> ELSE <<>>)
    \o (IF upd # <<>> THEN <<Include("updates.yaml")>> ELSE <<>>)
    \o (IF ins # <<>> THEN <<Include("inserts.yaml")>> ELSE <<>>)

\* diff.ts: after the loop, nothing to write, or the documents and the master index
EmitDiff ==
    /\ pc = "diffing"
    /\ variant = "diff"
    /\ cursor > Len(order.order)
    /\ LET hasChanges == \E i \in 1..Len(diffs) :
                            \/ diffs[i].inserts # <<>>
                            \/ diffs[i].updates # <<>>
                            \/ diffs[i].deletes # <<>>
           del == PartsOf(diffs, Reverse(order.order), "deletes")
           upd == PartsOf(diffs, order.order, "updates")
           ins == PartsOf(diffs, order.order, "inserts")
           dir == OUTPUT_DIR("diff", TIMESTAMP)
           docs == (IF del # <<>> THEN <<File(dir \o "/deletes.yaml", del)>> ELSE <<>>)
                   \o (IF upd # <<>> THEN <<File(dir \o "/updates.yaml", upd)>> ELSE <<>>)
                   \o (IF ins # <<>> THEN <<File(dir \o "/inserts.yaml", ins)>> ELSE <<>>)
           includes == MasterIncludes(del, upd, ins)
           files == Append(docs, File(MasterPath("diff", TIMESTAMP), includes))
       IN IF ~hasChanges
          THEN /\ events' = Append(events, Ev("log", "No data differences detected. Nothing generated."))
               /\ pc' = "closing"
               /\ fsys' = fsys
          ELSE /\ fsys' = WriteAll(fsys, files)
               /\ events' = events \o <<Ev("mkdir", dir)>> \o WriteEvents(files)
               /\ pc' = "snapshot"
    /\ UNCHANGED <<inputVars, now, TIMESTAMP, order, diffs, cursor, runs, hist>>

\* diff.ts snapshot: awaited; a failure of the executor is caught and logged
SnapshotDiff ==
    /\ pc = "snapshot"
    /\ variant = "diff"
    /\ \E ok \in BOOLEAN :
        IF ok
        THEN /\ fsys' = WriteFile(fsys, SnapshotPath(TIMESTAMP), tgtRows)
             /\ events' = Append(events, Ev("snapshot", SnapshotPath(TIMESTAMP)))
        ELSE /\ fsys' = fsys
             /\ events' = events \o <<Ev("snapshot", SnapshotPath(TIMESTAMP)),
                                      Ev("error", "Snapshot failed")>>
    /\ pc' = "finishing"
    /\ UNCHANGED <<inputVars, now, TIMESTAMP, order, diffs, cursor, runs, hist>>

\* diff.ts: both connections ended, diffPath reported, completion logged
FinishDiff ==
    /\ pc = "finishing"
    /\ variant = "diff"
    /\ events' = events \o <<Ev("end", "ref"), Ev("end", "tgt"), Ev("output", Stamp(TIMESTAMP)),
                             Ev("log", "Diff generated")>>
    /\ pc' = "done"
    /\ UNCHANGED <<inputVars, now, TIMESTAMP, order, diffs, cursor, fsys, runs, hist>>

\* the end of a run that wrote its last log line already: both connections ended
Close ==
    /\ pc = "closing"
    /\ events' = events \o <<Ev("end", "ref"), Ev("end", "tgt")>>
    /\ pc' = "done"
    /\ UNCHANGED <<inputVars, now, TIMESTAMP, order, diffs, cursor, fsys, runs, hist>>

\* sync.ts: one pass of the loop over orderedTables
GenerateNext ==
    /\ pc = "diffing"
    /\ variant = "sync"
    /\ cursor <= Len(order.order)
    /\ LET t == order.order[cursor]
       IN TableStep(t, generateTableDiff(t, PkGet(t), refRows[t], TgtQuery(t)))
    /\ UNCHANGED <<inputVars, now, TIMESTAMP, order, fsys, runs, hist>>

\* sync.ts: one pass of the loop over newTables
NewTableNext ==
    /\ pc = "diffing"
    /\ variant = "sync"
    /\ cursor > Len(order.order)
    /\ cursor <= Len(order.order) + Len(newTables)
    /\ LET t == newTables[cursor - Len(order.order)]
       IN IF Rejects("ref", t)
          THEN /\ Fail("query failed: " \o t)
               /\ UNCHANGED <<diffs, cursor>>
          ELSE /\ diffs' = Append(diffs, generateNewTableChangeLog(t, PkGet(t), refRows[t]))
               /\ cursor' = cursor + 1
               /\ UNCHANGED <<pc, events>>
    /\ UNCHANGED <<inputVars, now, TIMESTAMP, order, fsys, runs, hist>>

SyncDocPath(d) == OUTPUT_DIR("sync", TIMESTAMP) \o "/" \o d.table \o "-data.yaml"

\* sync.ts: after the loops, nothing to write, or one document per table diff and the
\* snapshot started without being awaited
EmitSync ==
    /\ pc = "diffing"
    /\ variant = "sync"
    /\ cursor > Len(order.order) + Len(newTables)
    /\ LET files == [i \in 1..Len(diffs) |-> File(SyncDocPath(diffs[i]), diffs[i].yaml)]
       IN IF diffs = <<>>
          THEN /\ events' = Append(events, Ev("log", "No changes detected. Nothing generated."))
               /\ pc' = "closing"
               /\ fsys' = fsys
          ELSE /\ fsys' = WriteAll(fsys, files)
               /\ events' = events \o <<Ev("mkdir", OUTPUT_DIR("sync", TIMESTAMP))>>
                                   \o WriteEvents(files)
                                   \o <<Ev("snapshot", SnapshotPath(TIMESTAMP))>>
               /\ pc' = "finishing"
    /\ UNCHANGED <<inputVars, now, TIMESTAMP, order, diffs, cursor, runs, hist>>

\* sync.ts: the master index, diffPath, both connections ended, completion logged
FinishSync ==
    /\ pc = "finishing"
    /\ variant = "sync"
    /\ LET master == [i \in 1..Len(diffs) |-> Include("./" \o SyncDocPath(diffs[i]))]
       IN fsys' = WriteFile(fsys, MasterPath("sync", TIMESTAMP), master)
    /\ events' = events \o <<Ev("write", MasterPath("sync", TIMESTAMP)),
                             Ev("output", Stamp(TIMESTAMP)),
                             Ev("end", "ref"), Ev("end", "tgt"),
                             Ev("log", "Master changelog and snapshot generated.")>>
    /\ pc' = "done"
    /\ UNCHANGED <<inputVars, now, TIMESTAMP, order, diffs, cursor, runs, hist>>

BatchDocPath(t) == t \o "-data-diff.yaml"

\* batched variant: one pass of the loop over tables; a query on a table one side lacks
\* rejects, and nothing handles the rejection
BatchNext ==
    /\ pc = "diffing"
    /\ variant = "batch"
    /\ cursor <= Len(BatchTables)
    /\ LET t == BatchTables[cursor]
           yamlLines == TableYamlLines(t, PkGet(t), ColumnInfo(t), SerialColumns(t),
                                       refRows[t], tgtRows[t], now)
       IN IF ~Includes(refTables, t) \/ ~Includes(tgtTables, t)
          THEN /\ Fail("relation does not exist")
               /\ UNCHANGED <<diffs, fsys, cursor>>
          ELSE /\ cursor' = cursor + 1
               /\ pc' = pc
               /\ IF PkGet(t) # <<>> /\ yamlLines # <<>>
                  THEN /\ fsys' = WriteFile(fsys, BatchDocPath(t), yamlLines)
                       /\ events' = events \o <<Ev("log", "Processing table"),
                                                Ev("write", BatchDocPath(t))>>
                       /\ diffs' = Append(diffs, BatchDocPath(t))
                  ELSE /\ events' = Append(events, Ev("log", "Processing table"))
                       /\ UNCHANGED <<diffs, fsys>>
    /\ UNCHANGED <<inputVars, now, TIMESTAMP, order, runs, hist>>

SqlCS(name, clock, sql) ==
    [id |-> name \o "-" \o ToString(clock), author |-> "auto-generated", op |-> "sql", sql |-> sql]

\* batched variant: the master index, written when a table document was
BatchMaster ==
    /\ pc = "diffing"
    /\ variant = "batch"
    /\ cursor > Len(BatchTables)
    /\ LET master == <<SqlCS("disable-fk", now, "SET session_replication_role = replica;")>>
                     \o [i \in 1..Len(diffs) |-> Include(diffs[i])]
                     \o <<SqlCS("enable-fk", now, "SET session_replication_role = DEFAULT;")>>
       IN IF diffs # <<>>
          THEN /\ fsys' = WriteFile(fsys, MasterPath("batch", TIMESTAMP), master)
               /\ events' = events \o <<Ev("write", MasterPath("batch", TIMESTAMP)),
                                        Ev("log", "Generated master-changelog.yaml")>>
          ELSE /\ fsys' = fsys
               /\ events' = Append(events,
                      Ev("log", "No differences found; master-changelog.yaml not created."))
    /\ pc' = "closing"
    /\ UNCHANGED <<inputVars, now, TIMESTAMP, order, diffs, cursor, runs, hist>>

Wrote(p) == Includes(events, Ev("write", p))

Exists(p) == \E f \in fsys : f.path = p

ContentOf(p) == IF Exists(p) THEN (CHOOSE f \in fsys : f.path = p).content ELSE <<>>

IsInclude(x) == "include" \in DOMAIN x

\* the document of this run an entry of the master index names
IncludedPath(v, entry) ==
    IF v \in {"diff", "fkcs"} THEN OUTPUT_DIR(v, TIMESTAMP) \o "/" \o entry.include
    ELSE IF v # "batch"
         THEN LET named == {f.path : f \in {g \in fsys : "./" \o g.path = entry.include}}
              IN IF named = {} THEN "" ELSE CHOOSE p \in named : TRUE
    ELSE entry.include

\* the changesets of the run in the order the master index it wrote applies them
Emitted ==
    IF ~Wrote(MasterPath(variant, TIMESTAMP)) THEN <<>>
    ELSE LET master == ContentOf(MasterPath(variant, TIMESTAMP))
         IN Flatten([i \in 1..Len(master) |->
                        IF IsInclude(master[i])
                        THEN ContentOf(IncludedPath(variant, master[i]))
                        ELSE <<master[i]>>])

\* the program is started again, later, against the same databases
Restart ==
    /\ pc \in {"done", "failed"}
    /\ runs < MaxRuns
    /\ hist' = Append(hist, [emitted |-> Emitted, events |-> events, pc |-> pc])
    /\ runs' = runs + 1
    /\ now' = now + 1
    /\ TIMESTAMP' = now + 1
    /\ pc' = "start"
    /\ events' = <<>>
    /\ diffs' = <<>>
    /\ order' = NoOrder
    /\ cursor' = 0
    /\ UNCHANGED <<inputVars, fsys>>

Next ==
    \/ Connect
    \/ LoadAndSort
    \/ LoadAndSortSync
    \/ DiffNext
    \/ EmitDiff
    \/ SnapshotDiff
    \/ FinishDiff
    \/ GenerateNext
    \/ NewTableNext
    \/ EmitSync
    \/ FinishSync
    \/ BatchNext
    \/ BatchMaster
    \/ Close
    \/ Restart

Spec == Init /\ [][Next]_vars

(***************************************************************************)
(* SpecFault: one run of diff.ts or sync.ts in which a row query may       *)
(* reject (the table was dropped meanwhile, the connection was lost).      *)
(***************************************************************************)
Faults ==
    {{}} \cup {{[side |-> s, table |-> t]} : s \in {"ref", "tgt"}, t \in {"a", "c"}}

InitFault ==
    /\ variant \in {"diff", "sync"}
    /\ pc = "start"
    /\ now = 1
    /\ TIMESTAMP = 1
    /\ runs = 1
    /\ refTables = <<"a", "b", "c">>
    /\ tgtTables \in {<<"a", "b", "c">>, <<"a", "b">>}
    /\ fks \in FKLists
    /\ tgtFKs = <<>>
    /\ catalog = NoCatalog
    /\ failing \in Faults
    /\ baseTables = <<>>
    /\ ALLOWED_TABLES = {}
    /\ columnType = ""
    /\ pkMap \in PkMaps
    /\ \E sa \in Scenes, sc \in {"same", "ins"} :
        /\ refRows = [a |-> SceneRef(sa), b |-> SceneRef("same"), c |-> SceneRef(sc)]
        /\ tgtRows = [a |-> SceneTgt(sa), b |-> SceneTgt("same"),
                      c |-> IF Includes(tgtTables, "c") THEN SceneTgt(sc) ELSE <<>>]
    /\ order = NoOrder
    /\ diffs = <<>>
    /\ cursor = 0
    /\ fsys = {}
    /\ events = <<>>
    /\ hist = <<>>

NextFault ==
    \/ Connect
    \/ LoadAndSort
    \/ LoadAndSortSync
    \/ DiffNext
    \/ EmitDiff
    \/ SnapshotDiff
    \/ FinishDiff
    \/ GenerateNext
    \/ NewTableNext
    \/ EmitSync
    \/ FinishSync
    \/ Close

SpecFault == InitFault /\ [][NextFault]_vars

(***************************************************************************)
(* The foreign-key loaders of the drop/create/FK variants.  A constraint   *)
(* of the catalog is [name, child, parent, pairs]: pairs lists, by         *)
(* ordinal position, the child column and the parent column it refers to.  *)
(***************************************************************************)
Con(name, child, parent, pairs) ==
    [name |-> name, child |-> child, parent |-> parent, pairs |-> pairs]

ChildCols(con) == [i \in 1..Len(con.pairs) |-> con.pairs[i][1]]

ParentCols(con) == [i \in 1..Len(con.pairs) |-> con.pairs[i][2]]

\* the text the driver hands over for a name[] value, as tokens: { a , b }
ArrayText(names) ==
    <<"{">> \o Flatten([i \in 1..Len(names) |->
                           IF i = 1 THEN <<names[i]>> ELSE <<",", names[i]>>]) \o <<"}">>

RECURSIVE Split(_, _)
\* String.split(","): the texts between the commas; cur is the text read so far
Split(tokens, cur) ==
    IF tokens = <<>> THEN <<cur>>
    ELSE IF Head(tokens) = "," THEN <<cur>> \o Split(Tail(tokens), "")
    ELSE Split(Tail(tokens), cur \o Head(tokens))

\* toArray of a text value: braces and quotes removed, split at commas, empty texts dropped
toArray(tokens) ==
    SelectSeq(Split(SelectSeq(tokens, LAMBDA x : x \notin {"{", "}", "\""}), ""),
              LAMBDA x : x # "")

\* fks of the variant with generateRowDiff: pg_constraint, conkey and confkey unnested
\* WITH ORDINALITY and joined on equal position, one edge per constraint
fksOf(cons) ==
    [n \in 1..Len(cons) |->
        [name |-> cons[n].name, child |-> cons[n].child, parent |-> cons[n].parent,
         childCols |-> toArray(ArrayText(ChildCols(cons[n]))),
         parentCols |-> toArray(ArrayText(ParentCols(cons[n])))]]

\* the rows of key_column_usage JOIN constraint_column_usage ON constraint_name for one
\* constraint: every constrained column against every referenced column
UsageRows(con) ==
    Flatten([i \in 1..Len(con.pairs) |->
                [j \in 1..Len(con.pairs) |->
                    [base_column |-> con.pairs[i][1], referenced_column |-> con.pairs[j][2]]]])

\* loadFKs of the variant with addFKCS: the joined rows grouped by constraint name
loadFKs(cons) ==
    [n \in 1..Len(cons) |->
        [constraintName |-> cons[n].name,
         baseTable |-> cons[n].child,
         baseColumns |-> [r \in 1..Len(UsageRows(cons[n])) |-> UsageRows(cons[n])[r].base_column],
         referencedTable |-> cons[n].parent,
         referencedColumns |->
             [r \in 1..Len(UsageRows(cons[n])) |-> UsageRows(cons[n])[r].referenced_column]]]

\* fks of the variant with columns: table_constraints JOIN constraint_column_usage, one
\* row per referenced column
fks_columns(cons) ==
    Flatten([n \in 1..Len(cons) |->
                [j \in 1..Len(cons[n].pairs) |->
                    [child |-> cons[n].child, parent |-> cons[n].parent]]])

\* the edges of a loaded list in the shape the sorts of this model read
AsEdges(es) ==
    [i \in 1..Len(es) |->
        IF "child" \in DOMAIN es[i] THEN FKRec(es[i].child, es[i].parent)
        ELSE FKRec(es[i].baseTable, es[i].referencedTable)]

(***************************************************************************)
(* Changesets of the variant with generateRowDiff (drop, create, new       *)
(* foreign keys, one document per table) and of the variant with columns   *)
(***************************************************************************)
dropCS(t) == [id |-> "drop-" \o t, author |-> "auto", op |-> "dropTable", tableName |-> t]

createCS(t) == [id |-> "create-" \o t, author |-> "auto", op |-> "createTable", tableName |-> t]

fkCS(f) ==
    [id |-> "fk-" \o f.name, author |-> "auto", op |-> "addForeignKeyConstraint",
     constraintName |-> f.name,
     baseTableName |-> f.child, baseColumnNames |-> f.childCols,
     referencedTableName |-> f.parent, referencedColumnNames |-> f.parentCols]

\* generateRowDiff, given the rows the two queries returned
generateRowDiff(table, pk, refRs, tgtRs) ==
    LET gone == SelectSeq(tgtRs, LAMBDA r : ~MapHas(refRs, pk, rowKey(r, pk)))
        new == SelectSeq(refRs, LAMBDA r : ~MapHas(tgtRs, pk, rowKey(r, pk)))
        kept == SelectSeq(refRs, LAMBDA r :
                    /\ MapHas(tgtRs, pk, rowKey(r, pk))
                    /\ Changed(r, MapGet(tgtRs, pk, rowKey(r, pk))) # <<>>)
    IN [deletes |-> [i \in 1..Len(gone) |->
                        [id |-> "delete-" \o table \o "-" \o rowKey(gone[i], pk),
                         author |-> "auto", op |-> "delete", tableName |-> table,
                         columns |-> <<>>, where |-> whereClause(gone[i], pk)]],
        inserts |-> [i \in 1..Len(new) |->
                        [id |-> "insert-" \o table \o "-" \o rowKey(new[i], pk),
                         author |-> "auto", op |-> "insert", tableName |-> table,
                         columns |-> ColumnEntries(new[i], ObjectKeys(new[i])),
                         where |-> <<>>]],
        updates |-> [i \in 1..Len(kept) |->
                        [id |-> "update-" \o table \o "-" \o rowKey(kept[i], pk),
                         author |-> "auto", op |-> "update", tableName |-> table,
                         columns |-> ColumnEntries(kept[i],
                                        Changed(kept[i], MapGet(tgtRs, pk, rowKey(kept[i], pk)))),
                         where |-> whereClause(kept[i], pk)]]]

\* the helpers of the variant with columns: booleans are quoted, keys are joined raw
yamlVal_columns(v) ==
    IF v.k = "null" THEN [q |-> FALSE, s |-> "null"]
    ELSE IF v.k = "num" THEN [q |-> FALSE, s |-> String(v)]
    ELSE [q |-> TRUE, s |-> EscapeQuotes(String(v))]

rowKey_columns(row, pk) == Join([i \in 1..Len(pk) |-> JoinText(Get(row, pk[i]))], "|")

whereClause_columns(row, pk) ==
    [i \in 1..Len(pk) |-> [name |-> pk[i], value |-> yamlVal_columns(Get(row, pk[i]))]]

Entries_columns(r, cols) ==
    [i \in 1..Len(cols) |-> [name |-> cols[i], value |-> yamlVal_columns(Get(r, cols[i]))]]

HasKey_columns(rows, pk, key) == \E i \in 1..Len(rows) : rowKey_columns(rows[i], pk) = key

GetKey_columns(rows, pk, key) ==
    rows[CHOOSE i \in 1..Len(rows) :
            /\ rowKey_columns(rows[i], pk) = key
            /\ \A j \in (i + 1)..Len(rows) : rowKey_columns(rows[j], pk) # key]

dropCS_columns(t) ==
    [id |-> "drop-" \o t, author |-> "auto", op |-> "dropTable", tableName |-> t,
     preConditions |-> [tableExists |-> t]]

createCS_columns(t, pk) ==
    [id |-> "create-" \o t, author |-> "auto", op |-> "createTable", tableName |-> t,
     columns |-> [i \in 1..Len(ColumnInfo(t)) |->
                     [name |-> ColumnInfo(t)[i].name, type |-> ColumnInfo(t)[i].data_type,
                      nullable |-> ColumnInfo(t)[i].nullable]],
     addPrimaryKey |-> pk]

insertCS_columns(t, r, pk) ==
    [id |-> "insert-" \o t \o "-" \o rowKey_columns(r, pk), author |-> "auto", op |-> "insert",
     tableName |-> t, columns |-> Entries_columns(r, ObjectKeys(r)), where |-> <<>>]

fkCS_columns(f) ==
    [id |-> "fk-" \o f.child \o "-" \o f.parent, author |-> "auto",
     op |-> "addForeignKeyConstraint",
     baseTableName |-> f.child, referencedTableName |-> f.parent]

\* the delete loop of the variant with columns, for one table
Deletes_columns(t, pk, refRs, tgtRs) ==
    IF pk = <<>> THEN <<>>
    ELSE LET gone == SelectSeq(tgtRs, LAMBDA r : ~HasKey_columns(refRs, pk, rowKey_columns(r, pk)))
         IN [i \in 1..Len(gone) |->
                [id |-> "delete-" \o t \o "-" \o rowKey_columns(gone[i], pk), author |-> "auto",
                 op |-> "delete", tableName |-> t, columns |-> <<>>,
                 where |-> whereClause_columns(gone[i], pk)]]

\* the insert and update loop of the variant with columns, for one table
Upserts_columns(t, pk, refRs, tgtRs) ==
    IF pk = <<>> THEN <<>>
    ELSE LET new == SelectSeq(refRs, LAMBDA r : ~HasKey_columns(tgtRs, pk, rowKey_columns(r, pk)))
             kept == SelectSeq(refRs, LAMBDA r :
                         /\ HasKey_columns(tgtRs, pk, rowKey_columns(r, pk))
                         /\ Changed(r, GetKey_columns(tgtRs, pk, rowKey_columns(r, pk))) # <<>>)
         IN [i \in 1..Len(new) |-> insertCS_columns(t, new[i], pk)]
            \o [i \in 1..Len(kept) |->
                   [id |-> "update-" \o t \o "-" \o rowKey_columns(kept[i], pk), author |-> "auto",
                    op |-> "update", tableName |-> t,
                    columns |-> Entries_columns(kept[i],
                                   Changed(kept[i],
                                           GetKey_columns(tgtRs, pk, rowKey_columns(kept[i], pk)))),
                    where |-> whereClause_columns(kept[i], pk)]]

\* addFKCS of the variant with loadFKs
addFKCS(fk) ==
    [id |-> "fk-" \o fk.constraintName, author |-> "auto", op |-> "addForeignKeyConstraint",
     constraintName |-> fk.constraintName,
     baseTableName |-> fk.baseTable, baseColumnNames |-> fk.baseColumns,
     referencedTableName |-> fk.referencedTable, referencedColumnNames |-> fk.referencedColumns]

(***************************************************************************)
(* SpecSchema: the runs of the programs that also emit structural          *)
(* changes.  variant "rowdiff" is the program with generateRowDiff,        *)
(* "columns" the program with columns(c, t), "fkcs" the program with       *)
(* loadFKs and addFKCS; sync.ts runs on the same inputs.  The list files   *)
(* (fileContents) of a run is kept in diffs.                               *)
(***************************************************************************)
droppedTables == SelectSeq(tgtTables, LAMBDA t : ~Includes(refTables, t))

FileEntry(name, lines) == [name |-> name, lines |-> lines]

\* lines added to the list's last entry when it has this name, else as a new entry;
\* nothing for no lines
AppendLines(files, name, lines) ==
    IF lines = <<>> THEN files
    ELSE IF files # <<>> /\ files[Len(files)].name = name
         THEN [files EXCEPT ![Len(files)].lines = @ \o lines]
         ELSE Append(files, FileEntry(name, lines))

OutFile(name) == OUTPUT_DIR(variant, TIMESTAMP) \o "/" \o name

\* the documents of the list and the master index that includes them in list order
FilesOf(files) ==
    [i \in 1..Len(files) |-> File(OutFile(files[i].name), files[i].lines)]
    \o <<File(MasterPath(variant, TIMESTAMP),
              [i \in 1..Len(files) |-> Include("./" \o OutFile(files[i].name))])>>

FKKey(f) == f.child \o "|" \o f.parent \o "|" \o Join(f.childCols, ",")

\* the reference edges whose key the target does not have
NewFKs(refFKs, targetFKs) ==
    SelectSeq(refFKs, LAMBDA f : \A i \in 1..Len(targetFKs) : FKKey(targetFKs[i]) # FKKey(f))

SettledAt(completion, q) == CHOOSE k \in DOMAIN completion : completion[k] = q

\* the orders in which the five metadata queries of Promise.all may settle:
\* completion[k] is the position, in the array handed to Promise.all, of the k-th to settle.
\* A connection answers its queries in the order they were sent (1, 3, 5 on the reference,
\* 2, 4 on the target); the two connections run independently
Completions ==
    {p \in Permutations(1..5) :
        /\ SettledAt(p, 1) < SettledAt(p, 3)
        /\ SettledAt(p, 3) < SettledAt(p, 5)
        /\ SettledAt(p, 2) < SettledAt(p, 4)}

EarlierOf(completion, p, q) ==
    IF SettledAt(completion, p) < SettledAt(completion, q) THEN p ELSE q

LaterOf(completion, p, q) ==
    IF SettledAt(completion, p) < SettledAt(completion, q) THEN q ELSE p

\* results gathered per kind as they settle (tables, then foreign keys, then primary keys)
PromiseAll_asSettled(results, completion) ==
    <<results[EarlierOf(completion, 1, 2)], results[LaterOf(completion, 1, 2)],
      results[EarlierOf(completion, 3, 4)], results[LaterOf(completion, 3, 4)],
      results[5]>>

\* Promise.all: the i-th element of the result is the result of the i-th promise,
\* whatever the order in which the promises settle
PromiseAll(results, completion) == results

\* rowdiff: the documents of the dropped tables, the new tables and the new foreign keys
StructuralFiles(rT, tT, rF, tF) ==
    LET dropped == topoSort(SelectSeq(tT, LAMBDA t : ~Includes(rT, t)), AsEdges(tF), TRUE).order
        created == topoSort(SelectSeq(rT, LAMBDA t : ~Includes(tT, t)), AsEdges(rF), FALSE).order
        newFKs == NewFKs(rF, tF)
    IN AppendLines(
         AppendLines(
           AppendLines(<<>>, "drop-tables.yaml",
                       [i \in 1..Len(dropped) |-> dropCS(dropped[i])]),
           "new-tables.yaml", [i \in 1..Len(created) |-> createCS(created[i])]),
         "new-fks.yaml", [i \in 1..Len(newFKs) |-> fkCS(newFKs[i])])

\* rowdiff: Promise.all of the five loaders, then the dropped tables, the new tables and
\* the new foreign keys
RowdiffLoad ==
    /\ pc = "connected"
    /\ variant = "rowdiff"
    /\ \E completion \in Completions :
        LET got == PromiseAll(<<refTables, tgtTables, fksOf(catalog.ref), fksOf(catalog.tgt),
                                pkMap>>, completion)
        IN /\ fks' = got[3]
           /\ tgtFKs' = got[4]
           /\ diffs' = StructuralFiles(got[1], got[2], got[3], got[4])
           /\ order' = topoSort(SelectSeq(got[1], LAMBDA t : Includes(got[2], t)),
                                AsEdges(got[3]), TRUE)
    /\ pc' = "diffing"
    /\ cursor' = 1
    /\ UNCHANGED <<variant, refTables, tgtTables, pkMap, catalog, failing, baseTables,
                   ALLOWED_TABLES, columnType, refRows, tgtRows,
                   now, TIMESTAMP, fsys, events, runs, hist>>

\* rowdiff: one pass of the delete loop, children first
RowdiffDeleteNext ==
    /\ pc = "diffing"
    /\ variant = "rowdiff"
    /\ cursor <= Len(existingTables)
    /\ LET t == order.order[cursor]
       IN diffs' = AppendLines(diffs, "delete-" \o t \o ".yaml",
                               generateRowDiff(t, PkGet(t), refRows[t], tgtRows[t]).deletes)
    /\ cursor' = cursor + 1
    /\ UNCHANGED <<inputVars, pc, now, TIMESTAMP, order, fsys, events, runs, hist>>

\* rowdiff: one pass of the insert and update loop, parents first
RowdiffInsertNext ==
    /\ pc = "diffing"
    /\ variant = "rowdiff"
    /\ cursor > Len(existingTables)
    /\ cursor <= 2 * Len(existingTables)
    /\ LET t == topoSort(existingTables, AsEdges(fks), FALSE).order[cursor - Len(existingTables)]
           d == generateRowDiff(t, PkGet(t), refRows[t], tgtRows[t])
       IN diffs' = AppendLines(diffs, "diff-" \o t \o ".yaml", d.inserts \o d.updates)
    /\ cursor' = cursor + 1
    /\ UNCHANGED <<inputVars, pc, now, TIMESTAMP, order, fsys, events, runs, hist>>

\* the documents and the master index when the list is not empty, else the in-sync log
WriteOrReport(text) ==
    IF diffs # <<>>
    THEN /\ fsys' = WriteAll(fsys, FilesOf(diffs))
         /\ events' = events \o <<Ev("mkdir", OUTPUT_DIR(variant, TIMESTAMP))>>
                             \o WriteEvents(FilesOf(diffs))
         /\ pc' = "snapshot"
    ELSE /\ fsys' = fsys
         /\ events' = Append(events, Ev("log", text))
         /\ pc' = "closing"

RowdiffWrite ==
    /\ pc = "diffing"
    /\ variant = "rowdiff"
    /\ cursor > 2 * Len(existingTables)
    /\ WriteOrReport("Databases already in sync")
    /\ UNCHANGED <<inputVars, now, TIMESTAMP, order, diffs, cursor, runs, hist>>

\* rowdiff and columns: generateSnapshot is awaited and not guarded; when it rejects, run
\* rejects and the process exits
SchemaSnapshot ==
    /\ pc = "snapshot"
    /\ variant \in {"rowdiff", "columns"}
    /\ \E ok \in BOOLEAN :
        IF ok
        THEN /\ fsys' = WriteFile(fsys, SnapshotPath(TIMESTAMP), tgtRows)
             /\ events' = events \o <<Ev("snapshot", SnapshotPath(TIMESTAMP))>>
                                 \o (IF variant = "rowdiff"
                                     THEN <<Ev("output", Stamp(TIMESTAMP)),
                                            Ev("log", "Diff generated")>>
                                     ELSE <<Ev("log", "Diff generated"),
                                            Ev("output", Stamp(TIMESTAMP))>>)
             /\ pc' = "closing"
        ELSE /\ fsys' = fsys
             /\ events' = events \o <<Ev("snapshot", SnapshotPath(TIMESTAMP)),
                                      Ev("error", "snapshot failed"), Ev("exit", "1")>>
             /\ pc' = "failed"
    /\ UNCHANGED <<inputVars, now, TIMESTAMP, order, diffs, cursor, runs, hist>>

\* columns: after the new-table loop, the foreign keys of the new tables
NewFKLines(newSorted) ==
    LET mine == SelectSeq(fks, LAMBDA f : Includes(newSorted, f.child))
    IN [i \in 1..Len(mine) |-> fkCS_columns(mine[i])]

\* columns: the four loaders in turn, the dropped tables, and the order of the new tables
ColumnsLoad ==
    /\ pc = "connected"
    /\ variant = "columns"
    /\ fks' = fks_columns(catalog.ref)
    /\ LET dropped == topoSort_drop(droppedTables, AsEdges(fks'), TRUE).order
       IN diffs' = AppendLines(<<>>, "drop-tables.yaml",
                               [i \in 1..Len(dropped) |-> dropCS_columns(dropped[i])])
    /\ order' = topoSort_drop(newTables, AsEdges(fks'), FALSE)
    /\ pc' = "diffing"
    /\ cursor' = 1
    /\ UNCHANGED <<variant, refTables, tgtTables, tgtFKs, pkMap, catalog, failing, baseTables,
                   ALLOWED_TABLES, columnType, refRows, tgtRows,
                   now,
                   TIMESTAMP, fsys, events, runs, hist>>

\* columns: one pass of the new-table loop: createTable with the primary key, then the
\* rows; after the last pass the foreign keys whose child is a new table
ColumnsNewNext ==
    /\ pc = "diffing"
    /\ variant = "columns"
    /\ cursor <= Len(newTables)
    /\ LET t == order.order[cursor]
           lines == <<createCS_columns(t, PkGet(t))>>
                    \o [i \in 1..Len(refRows[t]) |-> insertCS_columns(t, refRows[t][i], PkGet(t))]
           tablesDone == AppendLines(diffs, "new-tables.yaml", lines)
       IN diffs' = IF cursor = Len(newTables)
                   THEN AppendLines(tablesDone, "new-fks.yaml", NewFKLines(order.order))
                   ELSE tablesDone
    /\ cursor' = cursor + 1
    /\ UNCHANGED <<inputVars, pc, now, TIMESTAMP, order, fsys, events, runs, hist>>

ColumnsDeleteNext ==
    /\ pc = "diffing"
    /\ variant = "columns"
    /\ cursor > Len(newTables)
    /\ cursor <= Len(newTables) + Len(existingTables)
    /\ LET t == topoSort_drop(existingTables, AsEdges(fks), TRUE).order[cursor - Len(newTables)]
       IN diffs' = AppendLines(diffs, "diffs.yaml",
                               Deletes_columns(t, PkGet(t), refRows[t], tgtRows[t]))
    /\ cursor' = cursor + 1
    /\ UNCHANGED <<inputVars, pc, now, TIMESTAMP, order, fsys, events, runs, hist>>

ColumnsInsertNext ==
    /\ pc = "diffing"
    /\ variant = "columns"
    /\ cursor > Len(newTables) + Len(existingTables)
    /\ cursor <= Len(newTables) + 2 * Len(existingTables)
    /\ LET t == topoSort_drop(existingTables, AsEdges(fks), FALSE)
                    .order[cursor - Len(newTables) - Len(existingTables)]
       IN diffs' = AppendLines(diffs, "diffs.yaml",
                               Upserts_columns(t, PkGet(t), refRows[t], tgtRows[t]))
    /\ cursor' = cursor + 1
    /\ UNCHANGED <<inputVars, pc, now, TIMESTAMP, order, fsys, events, runs, hist>>

ColumnsWrite ==
    /\ pc = "diffing"
    /\ variant = "columns"
    /\ cursor > Len(newTables) + 2 * Len(existingTables)
    /\ WriteOrReport("Databases in sync! No changes detected.")
    /\ UNCHANGED <<inputVars, now, TIMESTAMP, order, diffs, cursor, runs, hist>>

\* fkcs: the loaders, then topoSortTables (with the visiting set) over the shared tables
FkcsLoadAndSort ==
    /\ pc = "connected"
    /\ variant = "fkcs"
    /\ fks' = loadFKs(catalog.ref)
    /\ order' = topoSortTables(existingTables, AsEdges(fks'))
    /\ IF order'.err # NoErr
       THEN Fail(ErrorText("diff", order'))
       ELSE pc' = "diffing" /\ events' = events
    /\ UNCHANGED <<variant, refTables, tgtTables, tgtFKs, pkMap, catalog, failing, baseTables,
                   ALLOWED_TABLES, columnType, refRows, tgtRows,
                   now,
                   TIMESTAMP, cursor, diffs, fsys, runs, hist>>

FkcsDiffNext ==
    /\ pc = "diffing"
    /\ variant = "fkcs"
    /\ cursor <= Len(order.order)
    /\ LET t == order.order[cursor]
           d == diffTable(t, PkGet(t), refRows[t], tgtRows[t])
       IN diffs' = IF d.isNull THEN diffs ELSE Append(diffs, d)
    /\ cursor' = cursor + 1
    /\ UNCHANGED <<inputVars, pc, now, TIMESTAMP, order, fsys, events, runs, hist>>

\* fkcs: every reference foreign key is taken as new; after the master index, when
\* GITHUB_OUTPUT is set, the diffPath line reads TS, a name this program does not define,
\* and run rejects; else snapshot() (which catches its own errors) and the two end() calls
FkcsEmit ==
    /\ pc = "diffing"
    /\ variant = "fkcs"
    /\ cursor > Len(order.order)
    /\ LET hasDataChanges == diffs # <<>>
           newFKs == fks
           del == PartsOf(diffs, Reverse(order.order), "deletes")
           upd == PartsOf(diffs, order.order, "updates")
           ins == PartsOf(diffs, order.order, "inserts")
           dir == OUTPUT_DIR("fkcs", TIMESTAMP)
           docs == (IF del # <<>> THEN <<File(dir \o "/deletes.yaml", del)>> ELSE <<>>)
                   \o (IF upd # <<>> THEN <<File(dir \o "/updates.yaml", upd)>> ELSE <<>>)
                   \o (IF ins # <<>> THEN <<File(dir \o "/inserts.yaml", ins)>> ELSE <<>>)
                   \o (IF newFKs # <<>>
                       THEN <<File(dir \o "/new-fks.yaml",
                                   [i \in 1..Len(newFKs) |-> addFKCS(newFKs[i])])>>
                       ELSE <<>>)
           includes == MasterIncludes(del, upd, ins)
                       \o (IF newFKs # <<>> THEN <<Include("new-fks.yaml")>> ELSE <<>>)
           files == Append(docs, File(MasterPath("fkcs", TIMESTAMP), includes))
       IN IF ~hasDataChanges /\ newFKs = <<>>
          THEN /\ events' = Append(events, Ev("log", "No differences detected. Nothing generated."))
               /\ pc' = "closing"
               /\ fsys' = fsys
          ELSE /\ fsys' = WriteAll(fsys, files)
               /\ \E output \in BOOLEAN :
                    IF output
                    THEN /\ events' = events \o <<Ev("mkdir", dir)>> \o WriteEvents(files)
                                          \o <<Ev("error", "ReferenceError: TS is not defined"),
                                               Ev("exit", "1")>>
                         /\ pc' = "failed"
                    ELSE /\ events' = events \o <<Ev("mkdir", dir)>> \o WriteEvents(files)
                                          \o <<Ev("snapshot", SnapshotPath(TIMESTAMP))>>
                         /\ pc' = "closing"
    /\ UNCHANGED <<inputVars, now, TIMESTAMP, order, diffs, cursor, runs, hist>>

\* the constraints a database may declare, in the order the catalog returns them
ConCandidates ==
    <<Con("fk_b_a", "b", "a", <<<<"id", "id">>, <<"name", "name">>>>),
      Con("fk_b_c", "b", "c", <<<<"id", "id">>>>),
      Con("fk_c_b", "c", "b", <<<<"id", "id">>>>)>>

\* the constraint lists over the tables of one side
ConLists(tabs) ==
    {cs \in {PickSeq(ConCandidates, I) : I \in SUBSET (1..Len(ConCandidates))} :
        \A i \in 1..Len(cs) : Includes(tabs, cs[i].child) /\ Includes(tabs, cs[i].parent)}

Layouts ==
    {[ref |-> <<"a", "b", "c">>, tgt |-> <<"a", "b", "c">>],
     [ref |-> <<"a", "b", "c">>, tgt |-> <<"a">>],
     [ref |-> <<"a">>, tgt |-> <<"a", "b", "c">>]}

RowsIn(tabs, t, rows) == IF Includes(tabs, t) THEN rows ELSE <<>>

InitSchema ==
    /\ variant \in {"sync", "rowdiff", "columns", "fkcs"}
    /\ pc = "start"
    /\ now = 1
    /\ TIMESTAMP = 1
    /\ runs = 1
    /\ \E lay \in Layouts :
        /\ refTables = lay.ref
        /\ tgtTables = lay.tgt
        /\ \E rc \in ConLists(lay.ref) :
            /\ catalog \in {[ref |-> rc, tgt |-> tc] :
                              tc \in {rc, <<>>} \cap ConLists(lay.tgt)}
                           \cup {[ref |-> rc, tgt |-> tc] :
                              tc \in IF Len(lay.ref) = 1 THEN ConLists(lay.tgt) ELSE {}}
            /\ fks = IF variant = "sync" THEN AsEdges(fks_columns(rc)) ELSE <<>>
        /\ \E sa \in Scenes, sb \in {"same", "all"}, sc \in {"same", "ins"} :
            /\ refRows = [a |-> RowsIn(lay.ref, "a", SceneRef(sa)),
                          b |-> RowsIn(lay.ref, "b", SceneRef(sb)),
                          c |-> RowsIn(lay.ref, "c", SceneRef(sc))]
            /\ tgtRows = [a |-> RowsIn(lay.tgt, "a", SceneTgt(sa)),
                          b |-> RowsIn(lay.tgt, "b", SceneTgt(sb)),
                          c |-> RowsIn(lay.tgt, "c", SceneTgt(sc))]
    /\ tgtFKs = <<>>
    /\ failing = {}
    /\ baseTables = <<>>
    /\ ALLOWED_TABLES = {}
    /\ columnType = ""
    /\ pkMap \in {m \in PkMaps : DOMAIN m \subseteq Range(refTables) \cup {"b", "c"}}
    /\ order = NoOrder
    /\ diffs = <<>>
    /\ cursor = 0
    /\ fsys = {}
    /\ events = <<>>
    /\ hist = <<>>

NextSchema ==
    \/ Connect
    \/ LoadAndSortSync
    \/ GenerateNext
    \/ NewTableNext
    \/ EmitSync
    \/ FinishSync
    \/ RowdiffLoad
    \/ RowdiffDeleteNext
    \/ RowdiffInsertNext
    \/ RowdiffWrite
    \/ SchemaSnapshot
    \/ ColumnsLoad
    \/ ColumnsNewNext
    \/ ColumnsDeleteNext
    \/ ColumnsInsertNext
    \/ ColumnsWrite
    \/ FkcsLoadAndSort
    \/ FkcsDiffNext
    \/ FkcsEmit
    \/ Close

SpecSchema == InitSchema /\ [][NextSchema]_vars

(***************************************************************************)
(* Claims about the sorts and the row reconciliation                       *)
(***************************************************************************)
KeysIn(rows, pk) == {rowKey(rows[i], pk) : i \in 1..Len(rows)}

UniqueKeys(rows, pk) ==
    \A i, j \in 1..Len(rows) : i # j => rowKey(rows[i], pk) # rowKey(rows[j], pk)

\* how many changesets of css carry the identifier id
CountId(css, id) == Cardinality({i \in 1..Len(css) : css[i].id = id})

ColumnsOfBoth(r, tRow) == Range(ObjectKeys(r)) \cup Range(ObjectKeys(tRow))

ExampleRef == <<IdKey("1") @@ [name |-> Str("a")], IdKey("2") @@ [name |-> Str("b")]>>
ExampleTgt == <<IdKey("1") @@ [name |-> Str("x")], IdKey("3") @@ [name |-> Str("c")]>>

\* C4: after diffTable (diff.ts) on row sets with unique keys, every RowKey of
\* reference or target has exactly one class: an insert changeset iff the key is
\* only in the reference, a delete changeset iff it is only in the target, an
\* update changeset iff it is in both and some column's values differ, none
\* otherwise; and the example {1:a, 2:b} against {1:x, 3:c} gives update 1
\* (name 'a'), insert 2, delete 3.
C4_RowClassification ==
    (pc = "diffed" /\ variant = "diff"
        /\ UniqueKeys(refRows[TheTable], PKOf(TheTable))
        /\ UniqueKeys(tgtRows[TheTable], PKOf(TheTable)))
    => LET t == TheTable
           pk == PKOf(t)
           R == refRows[t]
           T == tgtRows[t]
           d == diffs[1]
       IN /\ \A key \in KeysIn(R, pk) \cup KeysIn(T, pk) :
                LET ins == CountId(d.inserts, t \o "-insert-" \o key)
                    upd == CountId(d.updates, t \o "-update-" \o key)
                    del == CountId(d.deletes, t \o "-delete-" \o key)
                    inRef == key \in KeysIn(R, pk)
                    inTgt == key \in KeysIn(T, pk)
                    differs == \E c \in ColumnsOfBoth(MapGet(R, pk, key), MapGet(T, pk, key)) :
                                   Get(MapGet(R, pk, key), c) # Get(MapGet(T, pk, key), c)
                IN /\ ins + upd + del <= 1
                   /\ ins = 1 <=> (inRef /\ ~inTgt)
                   /\ del = 1 <=> (~inRef /\ inTgt)
                   /\ upd = 1 <=> (inRef /\ inTgt /\ differs)
          /\ (R = ExampleRef /\ T = ExampleTgt) =>
                /\ d.updates = <<updateCS(t, ExampleRef[1], <<"name">>, pk)>>
                /\ d.inserts = <<insertCS(t, ExampleRef[2], pk)>>
                /\ d.deletes = <<deleteCS(t, ExampleTgt[2], pk)>>

\* the data type of column c of table t
TypeOf(t, c) == Schema(t).types[c]

\* C5: no update changeset of diffTable (diff.ts) or generateTableDiff (sync.ts)
\* lists a column whose reference and target values are equal under the
\* type-aware comparison (numbers numerically, booleans as booleans, the rest
\* as text).
C5_UpdateMinimality ==
    (pc = "diffed" /\ variant \in {"diff", "sync"})
    => LET t == TheTable
           pk == PKOf(t)
           css == ApplicationOrder(variant, diffs[1])
       IN \A i \in 1..Len(css) :
            css[i].op = "update" =>
                \A r \in Range(refRows[t]), tRow \in Range(tgtRows[t]) :
                    (whereClause(r, pk) = css[i].where /\ rowKey(tRow, pk) = rowKey(r, pk)
                        /\ MapGet(tgtRows[t], pk, rowKey(r, pk)) = tRow)
                    => \A j \in 1..Len(css[i].columns) :
                          ~valuesAreEqual(Get(r, css[i].columns[j].name),
                                          Get(tRow, css[i].columns[j].name),
                                          TypeOf(t, css[i].columns[j].name))

\* C7: round trip of diffTable (diff.ts): after the changesets were applied to
\* the target rows in master-index order (deletes, updates, inserts), diffing
\* again yields no insert, no update and no delete.
C7_RoundTrip ==
    (pc = "rediffed" /\ variant = "diff") => diffs[2].isNull

\* C8: for every acyclic edge list, topoSortTables (diff.ts, sync.ts) returns
\* normally an order holding every input table exactly once and no other table,
\* and the edges with an endpoint outside the input have no effect.
AllEdges(es) == {<<es[i].childTable, es[i].parentTable>> : i \in 1..Len(es)}

Acyclic(es) == \A e \in AllEdges(es) : ~OnCycle(AllEdges(es), e[1])

InnerEdges(tables, es) ==
    SelectSeq(es, LAMBDA f : f.childTable \in Range(tables) /\ f.parentTable \in Range(tables))

C8_TotalOrderUnderFiltering ==
    (pc = "sorted" /\ variant \in {"diff", "sync"} /\ Acyclic(fks))
    => /\ order.err = NoErr
       /\ Len(order.order) = Len(refTables)
       /\ Range(order.order) = Range(refTables)
       /\ order = topoSortTables(refTables, InnerEdges(refTables, fks))

\* C9: when the edges among the input tables contain a cycle, topoSort (both
\* variants, forward and reverse mode) signals a cycle error instead of
\* returning an order.
C9_CycleNeverIgnored ==
    (pc = "sorted" /\ variant \in {"fwd", "rev", "ins", "drop"} /\ HasCycle(refTables, fks))
    => order.err = CycleErr

(***************************************************************************)
(* Claims about whole runs                                                 *)
(***************************************************************************)
\* the sort of the current run has returned
SortReturned == pc \in {"diffing", "snapshot", "finishing", "closing", "done"}

InsertsDoc == ContentOf(OUTPUT_DIR("diff", TIMESTAMP) \o "/inserts.yaml")

\* C1: forward ordering.  Once topoSortTables of diff.ts has returned, every foreign-key
\* edge child->parent between two of its input tables has the parent before the child in
\* the returned order, and in the inserts document of the run no insert changeset of the
\* child table precedes one of the parent table.
C1_ForwardOrdering ==
    (variant = "diff" /\ SortReturned) =>
        \A e \in EdgesAmong(existingTables, fks) :
            /\ IndexOf(order.order, e[2]) > 0
            /\ IndexOf(order.order, e[2]) < IndexOf(order.order, e[1])
            /\ \A i, j \in 1..Len(InsertsDoc) :
                  (InsertsDoc[i].tableName = e[1] /\ InsertsDoc[j].tableName = e[2]) => j < i

\* C1 witness: a finished run of diff.ts whose inserts document holds an insert of a
\* parent table and, after it, an insert of its child
C1_Witness ==
    /\ variant = "diff"
    /\ pc = "done"
    /\ \E e \in EdgesAmong(existingTables, fks) : \E i, j \in 1..Len(InsertsDoc) :
          /\ i < j
          /\ InsertsDoc[i].op = "insert" /\ InsertsDoc[i].tableName = e[2]
          /\ InsertsDoc[j].op = "insert" /\ InsertsDoc[j].tableName = e[1]

\* C2: delete ordering.  In the application order of the master index a finished run of
\* diff.ts or sync.ts wrote, for every foreign-key edge child->parent between two tables
\* present on both sides every delete changeset of the child comes before every delete
\* changeset of the parent.
C2_DeleteOrdering ==
    (variant \in {"diff", "sync"} /\ pc = "done") =>
        \A e \in EdgesAmong(existingTables, fks) : \A i, j \in 1..Len(Emitted) :
            (/\ Emitted[i].op = "delete" /\ Emitted[i].tableName = e[1]
             /\ Emitted[j].op = "delete" /\ Emitted[j].tableName = e[2]) => i < j

NoOutput(evs) == \A i \in 1..Len(evs) : evs[i].e \notin {"mkdir", "write", "output"}

\* C3: cycle detection.  Whenever the foreign-key edges among the tables given to
\* topoSortTables of diff.ts contain a cycle, the sort raises the error that names a table
\* on the cycle, and the run writes no changeset document, no master index and no
\* diffPath output.
C3_CycleDetection ==
    (variant = "diff" /\ pc \notin {"start", "connected"} /\ HasCycle(existingTables, fks)) =>
        /\ pc = "failed"
        /\ order.err = CycleErr
        /\ OnCycle(EdgesAmong(existingTables, fks), order.at)
        /\ NoOutput(events)

InSync ==
    /\ Range(refTables) = Range(tgtTables)
    /\ \A t \in Range(refTables) : refRows[t] = tgtRows[t]

ReportsNothing(evs) ==
    \E i \in 1..Len(evs) :
        /\ evs[i].e = "log"
        /\ evs[i].arg \in {"No data differences detected. Nothing generated.",
                           "No changes detected. Nothing generated."}

\* C6: idempotence on an in-sync pair.  When both sides hold the same tables and the same
\* rows, a run of diff.ts or sync.ts ends without error, emits no changeset, creates no
\* directory or file and reports that nothing was generated; a later run ends the same way.
C6_Idempotence ==
    (variant \in {"diff", "sync"} /\ InSync /\ pc \in {"done", "failed"}) =>
        /\ pc = "done"
        /\ Emitted = <<>>
        /\ NoOutput(events)
        /\ ReportsNothing(events)
        /\ runs > 1 => (hist[runs - 1].pc = "done" /\ hist[runs - 1].events = events
                        /\ hist[runs - 1].emitted = <<>>)

\* C10: deterministic identifiers.  A second finished run of diff.ts or of the batched
\* variant against the unchanged pair emits the same sequence of changesets, with the
\* same identifiers, as the run before it.
C10_DeterministicIdentifiers ==
    (variant \in {"diff", "batch"} /\ pc = "done" /\ runs > 1) =>
        /\ Len(Emitted) = Len(hist[runs - 1].emitted)
        /\ \A i \in 1..Len(Emitted) : Emitted[i].id = hist[runs - 1].emitted[i].id
        /\ Emitted = hist[runs - 1].emitted

\* C11: unique identifiers.  In the output of one finished run of diff.ts or sync.ts no
\* two changesets carry the same identifier: the row changesets of shared tables, and the
\* createTable and row-insert changesets of a new table, with or without a primary key.
C11_UniqueIdentifiers ==
    (variant \in {"diff", "sync"} /\ pc = "done") =>
        \A i, j \in 1..Len(Emitted) : i # j => Emitted[i].id # Emitted[j].id

DocNames == <<"deletes.yaml", "updates.yaml", "inserts.yaml">>

DiffDocPath(n) == OUTPUT_DIR("diff", TIMESTAMP) \o "/" \o n

\* the changeset documents the current run of diff.ts wrote
DocsWritten == {n \in Range(DocNames) : Wrote(DiffDocPath(n))}

MasterNames ==
    LET m == ContentOf(MasterPath("diff", TIMESTAMP)) IN [i \in 1..Len(m) |-> m[i].include]

HasRowCountPrecondition(cs) ==
    /\ "preConditions" \in DOMAIN cs
    /\ "sqlCheck" \in DOMAIN cs.preConditions
    /\ "expectedResult" \in DOMAIN cs.preConditions
    /\ cs.preConditions.sqlCheck = cs.where

\* C16: pre-conditions.  Every update changeset and every delete changeset a finished run
\* of diff.ts or of the batched variant emitted carries a pre-condition asserting the
\* number of rows that match the row's primary-key predicate.
C16_PreConditions ==
    (variant \in {"diff", "batch"} /\ pc = "done") =>
        \A i \in 1..Len(Emitted) :
            Emitted[i].op \in {"update", "delete"} => HasRowCountPrecondition(Emitted[i])

(***************************************************************************)
(* Claims about the runs that also emit structural changes (SpecSchema)    *)
(***************************************************************************)
RowOps == {"insert", "update", "delete"}

\* the changesets of the run that change rows of table t
RowChangesOf(t) ==
    SelectSeq(Emitted, LAMBDA cs : cs.op \in RowOps /\ cs.tableName = t)

\* C13: for a table present on both sides whose primary-key column list is empty or
\* missing, a finished run has emitted no insert, update or delete changeset, whatever
\* the rows of the table are
C13_NoPrimaryKeyNoRowChanges ==
    pc = "done" =>
        \A t \in Range(existingTables) : PkGet(t) = <<>> => RowChangesOf(t) = <<>>

\* positions of the changesets of the run with this change type on this table
PosOf(op, t) == {i \in 1..Len(Emitted) : Emitted[i].op = op /\ Emitted[i].tableName = t}

\* the constraints of cons between two distinct tables of the list that lie on no cycle
OrderedCons(cons, tables) ==
    {c \in Range(cons) :
        /\ c.child # c.parent
        /\ Includes(tables, c.child)
        /\ Includes(tables, c.parent)
        /\ ~OnCycle(EdgesAmong(tables, AsEdges(cons)), c.child)}

\* C17: a finished run has emitted exactly one dropTable changeset for every table only
\* the target has, and for every foreign key of the target between two such tables (cycles
\* apart) the child is dropped before the parent
C17_DropOrdering ==
    (variant \in {"rowdiff", "columns"} /\ pc = "done") =>
        /\ \A t \in Range(droppedTables) : Cardinality(PosOf("dropTable", t)) = 1
        /\ \A c \in OrderedCons(catalog.tgt, droppedTables) :
              \A i \in PosOf("dropTable", c.child), j \in PosOf("dropTable", c.parent) : i < j

\* C18: a finished run has emitted exactly one createTable changeset for every table only
\* the reference has, declaring the primary key when the table has one, and for every
\* foreign key of the reference between two such tables (cycles apart) the parent is
\* created before the child
C18_CreateOrdering ==
    (variant \in {"sync", "columns"} /\ pc = "done") =>
        /\ \A t \in Range(newTables) :
              /\ Cardinality(PosOf("createTable", t)) = 1
              /\ \A i \in PosOf("createTable", t) : Emitted[i].addPrimaryKey = PkGet(t)
        /\ \A c \in OrderedCons(catalog.ref, newTables) :
              \A i \in PosOf("createTable", c.parent), j \in PosOf("createTable", c.child) :
                  i < j

\* the run has emitted an addForeignKeyConstraint changeset from this child to this parent
AddsFK(child, parent) ==
    \E i \in 1..Len(Emitted) :
        /\ Emitted[i].op = "addForeignKeyConstraint"
        /\ Emitted[i].baseTableName = child
        /\ Emitted[i].referencedTableName = parent

\* C19: a finished run has emitted an addForeignKeyConstraint changeset for a foreign key
\* of the reference exactly when its child table is new or the target lacks the foreign
\* key; when the target has every foreign key of the reference and no table is new, there
\* is no such changeset and no new-fks document
C19_ForeignKeyAdditions ==
    (variant \in {"rowdiff", "columns", "fkcs"} /\ pc = "done") =>
        /\ \A c \in Range(catalog.ref) :
              AddsFK(c.child, c.parent)
                  <=> (Includes(newTables, c.child) \/ c \notin Range(catalog.tgt))
        /\ (Range(catalog.ref) \subseteq Range(catalog.tgt) /\ newTables = <<>>) =>
              /\ \A i \in 1..Len(Emitted) : Emitted[i].op # "addForeignKeyConstraint"
              /\ ~Exists(OutFile("new-fks.yaml"))

\* the column pairs of a loaded edge, by position
PairsOf(f) ==
    IF "childCols" \in DOMAIN f
    THEN [j \in 1..Len(f.childCols) |->
             <<f.childCols[j], IF j <= Len(f.parentCols) THEN f.parentCols[j] ELSE "">>]
    ELSE [j \in 1..Len(f.baseColumns) |->
             <<f.baseColumns[j],
               IF j <= Len(f.referencedColumns) THEN f.referencedColumns[j] ELSE "">>]

EdgeName(f) == IF "name" \in DOMAIN f THEN f.name ELSE f.constraintName

ParentColsOf(f) == IF "parentCols" \in DOMAIN f THEN f.parentCols ELSE f.referencedColumns

\* C20: every edge fks and loadFKs return has as many child columns as parent columns and
\* lists the column pairs of its constraint once each, in the constraint's order
C20_ColumnPairing ==
    (variant \in {"rowdiff", "fkcs"} /\ pc \notin {"start", "connected"}) =>
        \A i \in 1..Len(fks) :
            /\ Len(PairsOf(fks[i])) = Len(ParentColsOf(fks[i]))
            /\ \E c \in Range(catalog.ref) :
                  EdgeName(fks[i]) = c.name /\ PairsOf(fks[i]) = c.pairs

RECURSIVE DeleteFilesOf(_, _)
\* the list after the delete loop over tabs
DeleteFilesOf(files, tabs) ==
    IF tabs = <<>> THEN files
    ELSE LET t == Head(tabs)
         IN DeleteFilesOf(
                AppendLines(files, "delete-" \o t \o ".yaml",
                            generateRowDiff(t, PkGet(t), refRows[t], tgtRows[t]).deletes),
                Tail(tabs))

RECURSIVE DiffFilesOf(_, _)
\* the list after the insert and update loop over tabs
DiffFilesOf(files, tabs) ==
    IF tabs = <<>> THEN files
    ELSE LET t == Head(tabs)
             d == generateRowDiff(t, PkGet(t), refRows[t], tgtRows[t])
         IN DiffFilesOf(AppendLines(files, "diff-" \o t \o ".yaml", d.inserts \o d.updates),
                        Tail(tabs))

\* the documents the two databases determine, in master-index order
DeterminedFiles ==
    LET refFKs == fksOf(catalog.ref)
    IN DiffFilesOf(
         DeleteFilesOf(StructuralFiles(refTables, tgtTables, refFKs, fksOf(catalog.tgt)),
                       topoSort(existingTables, AsEdges(refFKs), TRUE).order),
         topoSort(existingTables, AsEdges(refFKs), FALSE).order)

\* C22: in the variant that issues the five metadata queries concurrently, the documents
\* of a finished run and their order in the master index are the ones the two databases
\* determine, whatever the order in which the queries settled
C22_ConcurrencyIndependent ==
    (variant = "rowdiff" /\ pc = "done") =>
        /\ diffs = DeterminedFiles
        /\ diffs # <<>> =>
              \A i \in 1..Len(FilesOf(DeterminedFiles)) :
                  ContentOf(FilesOf(DeterminedFiles)[i].path) = FilesOf(DeterminedFiles)[i].content

\* a finished run of that variant on databases whose table lists and foreign keys differ,
\* so that any exchange of two query results would show in the documents
C22_Witness ==
    /\ variant = "rowdiff"
    /\ pc = "done"
    /\ Len(diffs) >= 3
    /\ refTables # tgtTables
    /\ fksOf(catalog.ref) # fksOf(catalog.tgt)
    /\ Wrote(MasterPath(variant, TIMESTAMP))

(***************************************************************************)
(* Claims about runs in which a row query rejects (SpecFault)              *)
(***************************************************************************)
\* C14: when the row query of a table rejects, on the reference or on the target, a run
\* that finishes has emitted no row changeset for that table (it was skipped), else the
\* run has aborted
C14_RowFetchFailureNotSwallowed ==
    pc = "done" => \A f \in failing : RowChangesOf(f.table) = <<>>

\* C15: once the run has ended after connecting, normally or by an error of the sort or
\* of a query, the reference and the target connection have both been ended
C15_ConnectionsReleased ==
    pc \in {"done", "failed"} =>
        /\ Includes(events, Ev("end", "ref"))
        /\ Includes(events, Ev("end", "tgt"))

(***************************************************************************)
(* Further claims about the sorts (SpecSort)                               *)
(***************************************************************************)
\* there is a foreign-key path from s to t or from t to s
Related(es, s, t) == t \in ReachFrom(AllEdges(es), s) \/ s \in ReachFrom(AllEdges(es), t)

\* C21: two input tables with no foreign-key path between them, in either direction,
\* keep their relative input order in the output of topoSortTables
C21_StableTieBreak ==
    (pc = "sorted" /\ variant = "diff" /\ order.err = NoErr) =>
        \A s, t \in Range(refTables) :
            (~Related(fks, s, t) /\ IndexOf(refTables, s) < IndexOf(refTables, t))
                => IndexOf(order.order, s) < IndexOf(order.order, t)

(***************************************************************************)
(* SpecTables: the table loaders applied to every bounded catalog          *)
(***************************************************************************)
INTERNAL_TABLES == {"databasechangelog", "databasechangeloglock"}

\* the table names a catalog of this model may hold
TableNames == {"a", "Orders", "databasechangelog", "DATABASECHANGELOG", "DatabaseChangeLogLock"}

\* String.prototype.toLowerCase over the names of the model
toLowerCase(t) ==
    IF t = "Orders" THEN "orders"
    ELSE IF t = "DATABASECHANGELOG" THEN "databasechangelog"
    ELSE IF t = "DatabaseChangeLogLock" THEN "databasechangeloglock"
    ELSE t

\* diff.ts: names lower-cased, then the bookkeeping tables and the allow-list
loadTables(rows, allowed) ==
    SelectSeq([i \in 1..Len(rows) |-> toLowerCase(rows[i])],
              LAMBDA t : t \notin INTERNAL_TABLES /\ (allowed = {} \/ t \in allowed))

\* sync.ts: the same filter
loadTables_sync(rows, allowed) ==
    SelectSeq([i \in 1..Len(rows) |-> toLowerCase(rows[i])],
              LAMBDA t : t \notin INTERNAL_TABLES /\ (allowed = {} \/ t \in allowed))

\* the variant with generateRowDiff: names as stored, no allow-list
tables_rowdiff(rows) == SelectSeq(rows, LAMBDA t : t \notin INTERNAL_TABLES)

AllowLists == {{}, {"a"}, {"orders", "databasechangelog"}}

InitTables ==
    /\ variant = "none"
    /\ pc = "input"
    /\ now = 0
    /\ baseTables \in SeqsNoDup(TableNames, 0, 3)
    /\ ALLOWED_TABLES \in AllowLists
    /\ columnType = ""
    /\ refTables = <<>>
    /\ tgtTables = <<>>
    /\ fks = <<>>
    /\ tgtFKs = <<>>
    /\ pkMap = <<>>
    /\ catalog = NoCatalog
    /\ failing = {}
    /\ order = NoOrder
    /\ refRows = <<>>
    /\ tgtRows = <<>>
    /\ diffs = <<>>
    /\ Idle

Loaded(name, r) ==
    /\ pc = "input"
    /\ pc' = "loaded"
    /\ variant' = name
    /\ refTables' = r
    /\ UNCHANGED <<now, tgtTables, fks, tgtFKs, pkMap, catalog, failing, baseTables,
                   ALLOWED_TABLES, columnType, order, refRows, tgtRows, diffs>>
    /\ UNCHANGED runVars

LoadTablesDiff == Loaded("diff", loadTables(baseTables, ALLOWED_TABLES))

LoadTablesSync == Loaded("sync", loadTables_sync(baseTables, ALLOWED_TABLES))

LoadTablesRowdiff == Loaded("rowdiff", tables_rowdiff(baseTables))

NextTables ==
    \/ LoadTablesDiff
    \/ LoadTablesSync
    \/ LoadTablesRowdiff

SpecTables == InitTables /\ [][NextTables]_vars

(***************************************************************************)
(* Claims about the table loaders (SpecTables)                             *)
(***************************************************************************)
IsBookkeeping(t) == toLowerCase(t) \in INTERNAL_TABLES

Returned(t) == \E i \in 1..Len(refTables) : toLowerCase(refTables[i]) = toLowerCase(t)

\* C23: the loaders never return databasechangelog or databasechangeloglock, in any
\* letter case; with a non-empty allow-list they return only allow-listed tables, and
\* without one they return every other base table
C23_TableSelection ==
    pc = "loaded" =>
        /\ \A t \in Range(refTables) : ~IsBookkeeping(t)
        /\ (variant \in {"diff", "sync"} /\ ALLOWED_TABLES # {}) =>
              Range(refTables) \subseteq ALLOWED_TABLES
        /\ (variant = "rowdiff" \/ ALLOWED_TABLES = {}) =>
              \A t \in Range(baseTables) : ~IsBookkeeping(t) => Returned(t)

(***************************************************************************)
(* SpecEqual: valuesAreEqual applied to every pair of values a column of   *)
(* each type may hold, as the database driver hands them over: integers as *)
(* numbers, bigint and numeric as decimal text, date as its text (the type *)
(* parser of 1082), timestamp as Date objects, json as parsed objects.     *)
(***************************************************************************)
Bool(b) == [k |-> "bool", v |-> b]
DateV(ms) == [k |-> "date", v |-> ms]
Obj(json) == [k |-> "obj", v |-> json]

ColumnTypes ==
    {"integer", "bigint", "numeric", "boolean", "date", "timestamp with time zone", "text",
     "jsonb"}

ColumnValues(type) ==
    {NullV} \cup
    (IF type = "integer" THEN {Num("1"), Num("2")}
     ELSE IF type = "bigint" THEN {Str("1"), Str("9007199254740992"), Str("9007199254740993")}
     ELSE IF type = "numeric" THEN {Str("1.0"), Str("1.00"), Str("2")}
     ELSE IF type = "boolean" THEN {Bool("true"), Bool("false")}
     ELSE IF type = "date" THEN {Str("1970-01-01"), Str("1970-01-02")}
     ELSE IF type = "timestamp with time zone" THEN {DateV("0"), DateV("1000")}
     ELSE IF type = "text" THEN {Str("a"), Str("b"), Str("")}
     ELSE {Obj("{a:1}"), Obj("{a:2}")})

InitEqual ==
    /\ variant = "none"
    /\ pc = "input"
    /\ now = 0
    /\ columnType \in ColumnTypes
    /\ refRows \in [value : ColumnValues(columnType)]
    /\ tgtRows \in [value : ColumnValues(columnType)]
    /\ baseTables = <<>>
    /\ ALLOWED_TABLES = {}
    /\ refTables = <<>>
    /\ tgtTables = <<>>
    /\ fks = <<>>
    /\ tgtFKs = <<>>
    /\ pkMap = <<>>
    /\ catalog = NoCatalog
    /\ failing = {}
    /\ order = NoOrder
    /\ diffs = <<>>
    /\ Idle

CompareValues ==
    /\ pc = "input"
    /\ pc' = "compared"
    /\ diffs' = <<[equal |-> valuesAreEqual(refRows.value, tgtRows.value, columnType)]>>
    /\ UNCHANGED <<variant, now, refTables, tgtTables, fks, order, refRows, tgtRows>>
    /\ UNCHANGED runVars
    /\ UNCHANGED metaVars

NextEqual == CompareValues

SpecEqual == InitEqual /\ [][NextEqual]_vars

(***************************************************************************)
(* Claims about valuesAreEqual (SpecEqual)                                 *)
(***************************************************************************)
\* the number a decimal text or a number denotes, as decimal text without padding
ExactNumber(v) ==
    IF v.v \in {"1", "1.0", "1.00"} THEN "1" ELSE v.v

\* equality of two values of a column of this type, as the claim defines it
SameValue(a, b, type) ==
    IF a.k = "null" \/ b.k = "null" THEN a.k = b.k
    ELSE IF type \in numericTypes THEN ExactNumber(a) = ExactNumber(b)
    ELSE a.v = b.v

\* C24: valuesAreEqual(a, b, dataType) is true exactly when a and b are both null, or both
\* non-null and equal as numbers (numeric types), as booleans, as instants (timestamps),
\* as calendar days (date) or as text (every other type)
C24_TypeAwareEquality ==
    pc = "compared" =>
        (diffs[1].equal <=> SameValue(refRows.value, tgtRows.value, columnType))

(***************************************************************************)
(* SpecMerge: sync.ts is run, up to MaxRuns times, and merge.ts is started *)
(* in the same working directory.  The working directory may hold a        *)
(* db/data-diffs directory of an earlier layout.                           *)
(***************************************************************************)
\* merge.ts update: the changelog file handed to the migration executor
changeLogFile(changeDirectoryName) ==
    "db/data-diffs/" \o changeDirectoryName \o "/master-changelog.yaml"

\* the names a data directory written by sync.ts may hold
DataNames == {"a-data.yaml", "b-data.yaml", "c-data.yaml", "master-changelog.yaml"}

\* readdirSync(`./db/diff/${directory}/data`)
readdirData(n) == {e \in DataNames : Exists(OUTPUT_DIR("sync", n) \o "/" \o e)}

\* readdirSync("./db/diff"), by the number of the stamp; the comparator of the sort
\* subtracts new Date(name).getTime(), which is NaN for a stamp with dashes in the time,
\* so the sort leaves the order of readdirSync, ascending by name
directories ==
    SortedSeq({n \in 1..now : \/ readdirData(n) # {}
                              \/ Exists(SnapshotPath(n))
                              \/ Exists(MasterPath("diff", n))})

\* merge.ts getDirectoryName: the last directory of db/diff when its data directory lists
\* master-changelog.yaml, null otherwise; readdirSync of a missing data directory throws
getDirectoryName ==
    IF directories = <<>>
    THEN [isNull |-> TRUE, name |-> "", threw |-> FALSE, read |-> <<>>]
    ELSE LET last == directories[Len(directories)]
             read == <<Ev("readdir", OUTPUT_DIR("sync", last))>>
         IN IF readdirData(last) = {}
            THEN [isNull |-> TRUE, name |-> "", threw |-> TRUE, read |-> read]
            ELSE [isNull |-> "master-changelog.yaml" \notin readdirData(last),
                  name |-> Stamp(last), threw |-> FALSE, read |-> read]

UpdateFailure == "Failed with error Error: update failed"

\* merge.ts update: the executor is run on changeLogFile; its rejection is caught, printed
\* and not passed on
update(changeDirectoryName, ok) ==
    [threw |-> FALSE,
     events |-> <<Ev("update", changeLogFile(changeDirectoryName))>>
                \o (IF ok THEN <<>> ELSE <<Ev("error", UpdateFailure)>>)]

\* merge.ts init, with the outcome of the executor: it rejects a changelog file that does
\* not exist, and may reject one that does
MergeInit ==
    /\ pc \in {"start", "done", "failed"}
    /\ LET d == getDirectoryName
       IN IF d.threw
          THEN /\ events' = events \o d.read \o <<Ev("error", "ENOENT"), Ev("exit", "1")>>
               /\ pc' = "merged"
          ELSE IF d.isNull
          THEN /\ events' = events \o d.read
                     \o <<Ev("error", "No change log directory or master changelog file found!!! ")>>
               /\ pc' = "merged"
          ELSE \E ok \in BOOLEAN :
                /\ ok => Exists(changeLogFile(d.name))
                /\ LET u == update(d.name, ok)
                   IN events' = events \o d.read
                         \o <<Ev("log", "Starting merge!!"),
                              Ev("log", "Applying changes from directory '" \o d.name \o "'")>>
                         \o u.events
                         \o (IF u.threw THEN <<Ev("log", UpdateFailure)>>
                             ELSE <<Ev("log", "Merge Completed!!")>>)
                /\ pc' = "merged"
    /\ UNCHANGED <<inputVars, now, TIMESTAMP, order, diffs, cursor, fsys, runs, hist>>

InitMerge ==
    /\ variant = "sync"
    /\ pc = "start"
    /\ now = 1
    /\ TIMESTAMP = 1
    /\ runs = 1
    /\ refTables = <<"a", "b", "c">>
    /\ tgtTables \in {<<"a", "b", "c">>, <<"a", "b">>}
    /\ fks \in {<<>>, <<FKRec("a", "b")>>, <<FKRec("a", "b"), FKRec("b", "a")>>}
    /\ tgtFKs = <<>>
    /\ catalog = NoCatalog
    /\ failing = {}
    /\ baseTables = <<>>
    /\ ALLOWED_TABLES = {}
    /\ columnType = ""
    /\ pkMap = [t \in {"a", "b", "c"} |-> <<"id">>]
    /\ \E sa \in {"same", "upd"}, sb \in {"same", "ins"} :
        /\ refRows = [a |-> SceneRef(sa), b |-> SceneRef(sb), c |-> SceneRef("same")]
        /\ tgtRows = [a |-> SceneTgt(sa), b |-> SceneTgt(sb),
                      c |-> IF Includes(tgtTables, "c") THEN SceneTgt("same") ELSE <<>>]
    /\ order = NoOrder
    /\ diffs = <<>>
    /\ cursor = 0
    /\ fsys \in {{}, {File(changeLogFile(Stamp(1)), <<>>)}}
    /\ events = <<>>
    /\ hist = <<>>

NextMerge ==
    \/ Connect
    \/ LoadAndSortSync
    \/ GenerateNext
    \/ NewTableNext
    \/ EmitSync
    \/ FinishSync
    \/ Close
    \/ Restart
    \/ MergeInit

SpecMerge == InitMerge /\ [][NextMerge]_vars

(***************************************************************************)
(* Claims about merge.ts (SpecMerge)                                       *)
(***************************************************************************)
Logged(text) == Includes(events, Ev("log", text))

UpdateFailed == Includes(events, Ev("error", UpdateFailure))

UpdateCalls == {i \in 1..Len(events) : events[i].e = "update"}

\* C29: merge outcome reporting.  After init of merge.ts, "Merge Completed!!" is logged
\* only when update was called and finished without error; when update failed, the
\* failure is reported and completion is not.
C29_MergeOutcomeReporting ==
    pc = "merged" =>
        /\ Logged("Merge Completed!!") => (UpdateCalls # {} /\ ~UpdateFailed)
        /\ UpdateFailed => ~Logged("Merge Completed!!")

\* C30: merge applies what it checked and what sync wrote.  When init of merge.ts calls
\* update, the master-changelog.yaml handed to the executor is the file getDirectoryName
\* looked up in the data directory it read, and it is the master index a run of sync.ts
\* writes for that run directory.
C30_MergeAppliesWhatItChecked ==
    pc = "merged" =>
        \A i \in UpdateCalls :
            \E n \in 1..now :
                /\ Includes(events, Ev("readdir", OUTPUT_DIR("sync", n)))
                /\ events[i].arg = OUTPUT_DIR("sync", n) \o "/master-changelog.yaml"
                /\ events[i].arg = MasterPath("sync", n)
                /\ Exists(events[i].arg)

(***************************************************************************)
(* Further claims about whole runs (Spec)                                  *)
(***************************************************************************)
\* C25: parent insert before child update.  In the application order of the master index
\* a finished run of diff.ts wrote, for every foreign-key edge child->parent between two
\* tables present on both sides every insert changeset of the parent comes before every
\* update changeset of the child.
C25_ParentInsertBeforeChildUpdate ==
    (variant = "diff" /\ pc = "done") =>
        \A e \in EdgesAmong(existingTables, fks) : \A i, j \in 1..Len(Emitted) :
            (/\ Emitted[i].op = "insert" /\ Emitted[i].tableName = e[2]
             /\ Emitted[j].op = "update" /\ Emitted[j].tableName = e[1]) => i < j

\* the positions in the events of the run at which the snapshot was triggered
SnapshotTriggers == {i \in 1..Len(events) : events[i].e = "snapshot"}

\* the files the run has written, or will write, besides the snapshot
RunDocuments ==
    IF variant = "diff"
    THEN {DiffDocPath(n) : n \in DocsWritten} \cup {MasterPath("diff", TIMESTAMP)}
    ELSE {SyncDocPath(diffs[i]) : i \in 1..Len(diffs)} \cup {MasterPath("sync", TIMESTAMP)}

\* C28: snapshot after emission.  In a run of diff.ts or sync.ts, when the snapshot of
\* the target is triggered every changeset document and the master index of the run have
\* been written already.
C28_SnapshotAfterEmission ==
    variant \in {"diff", "sync"} =>
        \A i \in SnapshotTriggers : \A p \in RunDocuments :
            \E j \in 1..(i - 1) : events[j] = Ev("write", p)

(***************************************************************************)
(* Further claims about the row diff (SpecRows)                            *)
(***************************************************************************)
\* the columns whose reference value is not the target value
Differing(r, tRow) == {c \in ColumnsOfBoth(r, tRow) : Get(r, c) # Get(tRow, c)}

\* the columns an update changeset lists
ListedIn(cs) == {cs.columns[j].name : j \in 1..Len(cs.columns)}

\* C26: update completeness.  After diffTable (diff.ts) on row sets with unique keys, for
\* every RowKey present on both sides every column whose reference value differs from the
\* target value (null against a non-null value included) is listed in the update
\* changeset of that key, and the update changeset exists exactly when such a column
\* exists.
C26_UpdateCompleteness ==
    (pc = "diffed" /\ variant = "diff"
        /\ UniqueKeys(refRows[TheTable], PKOf(TheTable))
        /\ UniqueKeys(tgtRows[TheTable], PKOf(TheTable)))
    => LET t == TheTable
           pk == PKOf(t)
           T == tgtRows[t]
           d == diffs[1]
       IN \A r \in Range(refRows[t]) :
            MapHas(T, pk, rowKey(r, pk)) =>
                LET id == t \o "-update-" \o rowKey(r, pk)
                    cols == Differing(r, MapGet(T, pk, rowKey(r, pk)))
                IN /\ CountId(d.updates, id) = (IF cols = {} THEN 0 ELSE 1)
                   /\ \A i \in 1..Len(d.updates) :
                         d.updates[i].id = id => cols \subseteq ListedIn(d.updates[i])

\* the primary-key tuple of a row
PkTuple(r, pk) == [i \in 1..Len(pk) |-> Get(r, pk[i])]

PkTuplesOf(rows, pk) == {PkTuple(rows[i], pk) : i \in 1..Len(rows)}

\* C27: rowKey injectivity.  Among the rows of one table on one side that diffTable
\* (diff.ts) was given, two rows with different primary-key tuples never have the same
\* rowKey, so the key-to-row map of the side holds one entry per primary-key tuple.
C27_RowKeyInjective ==
    (pc = "diffed" /\ variant = "diff")
    => \A rows \in {refRows[TheTable], tgtRows[TheTable]} :
          LET pk == PKOf(TheTable)
          IN /\ \A r1, r2 \in Range(rows) :
                   PkTuple(r1, pk) # PkTuple(r2, pk) => rowKey(r1, pk) # rowKey(r2, pk)
             /\ Cardinality(KeysIn(rows, pk)) = Cardinality(PkTuplesOf(rows, pk))

=============================================================================
